---- MODULE Spec2Model ----
(***************************************************************************)
(* A model of the dashboard aggregation of webxperts-backend               *)
(* (api/dashboard/index.js): calendar math, the activity predicate, the    *)
(* row amount derivation and the request handler.                          *)
(*                                                                         *)
(* JavaScript values are tagged records, because the code's behaviour      *)
(* turns on the difference between null, numbers, strings and Date         *)
(* objects.  A Date is its time value counted in whole local days since    *)
(* 1970-01-01: every Date the code builds is a local midnight, mysql2      *)
(* delivers a DATE column as the Date of its local midnight, and "now" is  *)
(* only read through getFullYear/getMonth/getDate.                         *)
(***************************************************************************)
EXTENDS Integers, Sequences, FiniteSets, TLC

VARIABLES
    call,             \* last call of a pure helper: its arguments and result
    pool,             \* api/lib/db.js: the module-level pool
    now,              \* new Date() of the dashboard request (a Date)
    recurring_sales,  \* table recurring_sales: a sequence of rows
    oneoff_sales,     \* table oneoff_sales: a sequence of rows
    clients,          \* table clients: a sequence of status values
    tasks,            \* table tasks: a sequence of status values
    pc,               \* position of the dashboard handler
    method,           \* req.method of the request
    conn,             \* "none" | "held" | "released"
    releases,         \* number of conn.release() calls of the request
    loc,              \* the handler's local constants
    res,              \* responses sent: a sequence of [status, body]
    reqs,             \* requests in flight together, by request number
    sale,             \* the request to oneoff-sales or recurring-sales in flight
    projects          \* table projects: a sequence of rows

vars == <<call, pool, now, recurring_sales, oneoff_sales, clients, tasks,
          pc, method, conn, releases, loc, res, reqs, sale, projects>>

----------------------------------------------------------------------------
(* JavaScript numbers: finite whole numbers, NaN and the two infinities.   *)

Num(v)  == [k |-> "fin", v |-> v]
NaN     == [k |-> "nan", v |-> 0]
PosInf  == [k |-> "inf", v |-> 1]
NegInf  == [k |-> "inf", v |-> -1]

Sign(v) == IF v > 0 THEN 1 ELSE IF v < 0 THEN -1 ELSE 0

NumMul(a, b) ==
    IF a.k = "nan" \/ b.k = "nan" THEN NaN
    ELSE IF a.k = "inf" \/ b.k = "inf"
         THEN IF Sign(a.v) * Sign(b.v) = 0 THEN NaN
              ELSE IF Sign(a.v) * Sign(b.v) > 0 THEN PosInf ELSE NegInf
         ELSE Num(a.v * b.v)

NumAdd(a, b) ==
    IF a.k = "nan" \/ b.k = "nan" THEN NaN
    ELSE IF a.k = "inf" /\ b.k = "inf"
         THEN IF a.v = b.v THEN a ELSE NaN
         ELSE IF a.k = "inf" THEN a
         ELSE IF b.k = "inf" THEN b
         ELSE Num(a.v + b.v)

NumTruthy(a) == (a.k = "inf") \/ (a.k = "fin" /\ a.v # 0)

(* JavaScript values as the driver delivers them.                          *)
JsNull      == [t |-> "null"]
JsNum(v)    == [t |-> "number", n |-> Num(v)]
JsStr(s)    == [t |-> "string", s |-> s]
JsBool(b)   == [t |-> "boolean", b |-> b]
JsDate(tv)  == [t |-> "date", valid |-> TRUE, tv |-> tv]
InvalidDate == [t |-> "date", valid |-> FALSE, tv |-> 0]

Digits == <<"0", "1", "2", "3", "4", "5", "6", "7", "8", "9">>
IsDigit(c) == \E i \in 1..10 : Digits[i] = c
DigitVal(c) == (CHOOSE i \in 1..10 : Digits[i] = c) - 1
IsDigits(s) == Len(s) > 0 /\ \A i \in 1..Len(s) : IsDigit(s[i])

RECURSIVE ParseDigits(_)
ParseDigits(s) ==
    IF Len(s) = 0 THEN 0
    ELSE 10 * ParseDigits(SubSeq(s, 1, Len(s) - 1)) + DigitVal(s[Len(s)])

DotAt(s) == IF \E i \in 1..Len(s) : s[i] = "."
            THEN CHOOSE i \in 1..Len(s) : s[i] = "." ELSE 0

(* StringToNumber on an unsigned literal.  The model's finite numbers are  *)
(* whole, so a fraction part is accepted when its digits are digits and    *)
(* adds nothing: the bounded inputs carry only zeros there.                *)
UnsignedToNumber(s) ==
    IF s = <<"I", "n", "f", "i", "n", "i", "t", "y">> THEN PosInf
    ELSE IF DotAt(s) = 0
         THEN IF IsDigits(s) THEN Num(ParseDigits(s)) ELSE NaN
         ELSE IF IsDigits(SubSeq(s, 1, DotAt(s) - 1))
                 /\ IsDigits(SubSeq(s, DotAt(s) + 1, Len(s)))
              THEN Num(ParseDigits(SubSeq(s, 1, DotAt(s) - 1)))
              ELSE NaN

StringToNumber(s) ==
    IF Len(s) = 0 THEN Num(0)
    ELSE IF s[1] = "-"
         THEN NumMul(Num(-1), UnsignedToNumber(Tail(s)))
         ELSE UnsignedToNumber(s)

(* Number(x) *)
ToNumber(x) ==
    CASE x.t = "null"    -> Num(0)
      [] x.t = "number"  -> x.n
      [] x.t = "string"  -> StringToNumber(x.s)
      [] x.t = "boolean" -> IF x.b THEN Num(1) ELSE Num(0)
      [] x.t = "date"    -> IF x.valid THEN Num(x.tv) ELSE NaN

(* the truthiness test of  x || y  and  x ? a : b *)
Truthy(x) ==
    CASE x.t = "null"    -> FALSE
      [] x.t = "number"  -> NumTruthy(x.n)
      [] x.t = "string"  -> Len(x.s) > 0
      [] x.t = "boolean" -> x.b
      [] x.t = "date"    -> TRUE

(* x || fallback *)
OrElse(x, fallback) == IF Truthy(x) THEN x ELSE fallback

(* x == null *)
LooseEqNull(x) == x.t = "null"

(* x == 1 : null equals only null/undefined, everything else by ToNumber *)
LooseEqOne(x) ==
    IF x.t = "null" THEN FALSE
    ELSE ToNumber(x).k = "fin" /\ ToNumber(x).v = 1

UpperCase == <<"A", "B", "C", "D", "E", "F", "G", "H", "I", "J", "K", "L", "M",
               "N", "O", "P", "Q", "R", "S", "T", "U", "V", "W", "X", "Y", "Z">>
LowerCase == <<"a", "b", "c", "d", "e", "f", "g", "h", "i", "j", "k", "l", "m",
               "n", "o", "p", "q", "r", "s", "t", "u", "v", "w", "x", "y", "z">>
LowerChar(c) ==
    IF \E i \in 1..26 : UpperCase[i] = c
    THEN LowerCase[CHOOSE i \in 1..26 : UpperCase[i] = c]
    ELSE c

(* mutant: the casing is left as stored *)
toLowerCase_asis(s) == s

(* String.prototype.toLowerCase *)
toLowerCase(s) == [i \in 1..Len(s) |-> LowerChar(s[i])]

(* String(x) for the values billing_cycle can hold *)
JsString(x) ==
    CASE x.t = "string" -> x.s
      [] x.t = "null"   -> <<"n", "u", "l", "l">>
      [] OTHER          -> <<"?">>

----------------------------------------------------------------------------
(* The Date arithmetic of ECMAScript, in whole days.                        *)

IsLeap(y) == (y % 4 = 0) /\ ((y % 100 # 0) \/ (y % 400 = 0))

DayFromYear(y) ==
    365 * (y - 1970) + ((y - 1969) \div 4) - ((y - 1901) \div 100)
        + ((y - 1601) \div 400)

(* first day-within-year of month m (0..12) *)
MonthStart(m, leap) ==
    LET base == <<0, 31, 59, 90, 120, 151, 181, 212, 243, 273, 304, 334, 365>>
    IN  base[m + 1] + (IF leap /\ m >= 2 THEN 1 ELSE 0)

YearFromDay(tv) ==
    CHOOSE y \in (1970 + (tv \div 366))..(1970 + (tv \div 365)) :
        DayFromYear(y) <= tv /\ tv < DayFromYear(y + 1)

MonthFromDay(tv) ==
    LET y   == YearFromDay(tv)
        dwy == tv - DayFromYear(y)
    IN  CHOOSE m \in 0..11 :
            MonthStart(m, IsLeap(y)) <= dwy /\ dwy < MonthStart(m + 1, IsLeap(y))

DateFromDay(tv) ==
    LET y == YearFromDay(tv)
    IN  tv - DayFromYear(y) - MonthStart(MonthFromDay(tv), IsLeap(y)) + 1

(* MakeDay: month and day overflow are carried into the year and month *)
MakeDay(year, month, date) ==
    LET ym == year + (month \div 12)
        mn == month % 12
    IN  DayFromYear(ym) + MonthStart(mn, IsLeap(ym)) + date - 1

(* new Date(y, m, d) *)
NewDate(y, m, d) == JsDate(MakeDay(y, m, d))

getFullYear(d) == YearFromDay(d.tv)
getMonth(d)    == MonthFromDay(d.tv)
getDate(d)     == DateFromDay(d.tv)

(* a <= b and a >= b on Dates: both compare the time values, NaN never *)
(* mutant: strict comparison *)
DateLE_strict(a, b) == a.valid /\ b.valid /\ a.tv < b.tv

DateLE(a, b) == a.valid /\ b.valid /\ a.tv <= b.tv
DateGE(a, b) == a.valid /\ b.valid /\ a.tv >= b.tv

----------------------------------------------------------------------------
(* Stored values and what the mysql2 driver makes of them (db.js sets no   *)
(* dateStrings/decimalNumbers: INT -> number, DECIMAL -> string,           *)
(* DATE -> Date of the local midnight, zero date -> Invalid Date).         *)

SqlNull          == [t |-> "null"]
SqlInt(v)        == [t |-> "int", v |-> v]
SqlDec(v)        == [t |-> "decimal", v |-> v]
SqlText(s)       == [t |-> "text", s |-> s]
SqlDate(y, m, d) == [t |-> "date", y |-> y, m |-> m, d |-> d]
SqlZeroDate      == [t |-> "date", y |-> 0, m |-> 0, d |-> 0]

RECURSIVE FormatNat(_)
FormatNat(n) ==
    IF n < 10 THEN <<Digits[n + 1]>>
    ELSE Append(FormatNat(n \div 10), Digits[(n % 10) + 1])

FormatDecimal(v) ==
    (IF v < 0 THEN <<"-">> ELSE <<>>)
        \o FormatNat(IF v < 0 THEN -v ELSE v) \o <<".", "0", "0">>

FromDriver(x) ==
    CASE x.t = "null"    -> JsNull
      [] x.t = "int"     -> JsNum(x.v)
      [] x.t = "decimal" -> JsStr(FormatDecimal(x.v))
      [] x.t = "text"    -> JsStr(x.s)
      [] x.t = "date"    -> IF x = SqlZeroDate THEN InvalidDate
                            ELSE NewDate(x.y, x.m - 1, x.d)

RowFromDriver(row) == [f \in DOMAIN row |-> FromDriver(row[f])]

----------------------------------------------------------------------------
(* api/dashboard/index.js, the helpers                                      *)

padStart2(s) == IF Len(s) < 2 THEN <<"0">> \o s ELSE s

ymd(date) ==
    FormatNat(getFullYear(date)) \o <<"-">>
        \o padStart2(FormatNat(getMonth(date) + 1)) \o <<"-">>
        \o padStart2(FormatNat(getDate(date)))

firstOfMonth(d) == NewDate(getFullYear(d), getMonth(d), 1)

(* mutant: the first day of the next month instead of its day 0 *)
lastOfMonth_firstOfNext(d) == NewDate(getFullYear(d), getMonth(d) + 1, 1)

lastOfMonth(d) == NewDate(getFullYear(d), getMonth(d) + 1, 0)

(* mutant: April itself counted to the previous fiscal year *)
fyStartFor_aprilLate(d) ==
    LET y == IF getMonth(d) > 3 THEN getFullYear(d) ELSE getFullYear(d) - 1
    IN  NewDate(y, 3, 1)

fyStartFor(d) ==
    LET y == IF getMonth(d) >= 3 THEN getFullYear(d) ELSE getFullYear(d) - 1
    IN  NewDate(y, 3, 1)

Monthly == <<"m", "o", "n", "t", "h", "l", "y">>

(* new Date(x) of a Date copies its time value *)
DateOf(x) == [t |-> "date", valid |-> x.valid, tv |-> x.tv]

(* mutant: a null flag is not taken as active *)
isActiveInMonth_nullInactive(rec, monthDate) ==
    LET start == IF Truthy(rec.start_date) THEN DateOf(rec.start_date) ELSE JsNull
        end   == IF Truthy(rec.end_date) THEN DateOf(rec.end_date) ELSE JsNull
        afterStart == (~Truthy(start)) \/ DateLE(start, lastOfMonth(monthDate))
        beforeEnd  == (~Truthy(end)) \/ DateGE(end, firstOfMonth(monthDate))
        cycleOk ==
            toLowerCase(JsString(OrElse(rec.billing_cycle, JsStr(Monthly)))) = Monthly
    IN  LooseEqOne(rec.active) /\ cycleOk /\ afterStart /\ beforeEnd

(* mutant: the end date is not looked at *)
isActiveInMonth_noEnd(rec, monthDate) ==
    LET start == IF Truthy(rec.start_date) THEN DateOf(rec.start_date) ELSE JsNull
        activeFlag == LooseEqNull(rec.active) \/ LooseEqOne(rec.active)
        afterStart == (~Truthy(start)) \/ DateLE(start, lastOfMonth(monthDate))
        cycleOk ==
            toLowerCase(JsString(OrElse(rec.billing_cycle, JsStr(Monthly)))) = Monthly
    IN  activeFlag /\ cycleOk /\ afterStart

isActiveInMonth(rec, monthDate) ==
    LET start == IF Truthy(rec.start_date) THEN DateOf(rec.start_date) ELSE JsNull
        end   == IF Truthy(rec.end_date) THEN DateOf(rec.end_date) ELSE JsNull
        mStart == firstOfMonth(monthDate)
        mEnd   == lastOfMonth(monthDate)
        activeFlag == LooseEqNull(rec.active) \/ LooseEqOne(rec.active)
        afterStart == (~Truthy(start)) \/ DateLE(start, mEnd)
        beforeEnd  == (~Truthy(end)) \/ DateGE(end, mStart)
        cycleOk ==
            toLowerCase(JsString(OrElse(rec.billing_cycle, JsStr(Monthly)))) = Monthly
    IN  activeFlag /\ cycleOk /\ afterStart /\ beforeEnd

(* mutant: amount tested for truthiness, so a stored 0 is derived *)
derivedAmount_truthy(r) ==
    IF Truthy(r.amount) THEN ToNumber(r.amount)
    ELSE NumMul(ToNumber(OrElse(r.quantity, JsNum(0))),
                ToNumber(OrElse(r.unit_amount, JsNum(0))))

(* the value before the trailing  || 0 *)
derivedAmount(r) ==
    IF ~LooseEqNull(r.amount) THEN ToNumber(r.amount)
    ELSE NumMul(ToNumber(OrElse(r.quantity, JsNum(0))),
                ToNumber(OrElse(r.unit_amount, JsNum(0))))

rowAmount(r) ==
    IF NumTruthy(derivedAmount(r)) THEN derivedAmount(r) ELSE Num(0)

(* CASE WHEN amount IS NOT NULL THEN amount                                *)
(*      ELSE COALESCE(quantity,0)*COALESCE(unit_amount,0) END              *)
(* over numeric or NULL columns                                            *)
(* mutant: COALESCE(x, 1) *)
Coalesce0_one(x) == IF x.t = "null" THEN 1 ELSE x.v

Coalesce0(x) == IF x.t = "null" THEN 0 ELSE x.v

SqlEffectiveAmount(row) ==
    IF row.amount.t # "null" THEN row.amount.v
    ELSE Coalesce0(row.quantity) * Coalesce0(row.unit_amount)

(* recurring.filter(r => isActiveInMonth(r, monthDate))                    *)
(*          .reduce((a, r) => a + rowAmount(r), 0)                         *)
RECURSIVE sumRecurringForMonth(_, _)
sumRecurringForMonth(recurring, monthDate) ==
    IF Len(recurring) = 0 THEN Num(0)
    ELSE LET n    == Len(recurring)
             rest == sumRecurringForMonth(SubSeq(recurring, 1, n - 1), monthDate)
         IN  IF isActiveInMonth(recurring[n], monthDate)
             THEN NumAdd(rest, rowAmount(recurring[n]))
             ELSE rest

(* the step of the month cursor: new Date(c.getFullYear(), c.getMonth()+1, 1) *)
nextMonth(cursor) == NewDate(getFullYear(cursor), getMonth(cursor) + 1, 1)

----------------------------------------------------------------------------
(* The Gregorian calendar, stated on civil dates (year, month 1..12, day): *)
(* what the claims are measured against.                                   *)

LeapYear(y) == IF y % 400 = 0 THEN TRUE ELSE IF y % 100 = 0 THEN FALSE ELSE y % 4 = 0

DaysInMonth(y, m) ==
    IF m = 2 THEN (IF LeapYear(y) THEN 29 ELSE 28)
    ELSE IF m \in {4, 6, 9, 11} THEN 30 ELSE 31

CivilBefore(a, b) ==
    \/ a.y < b.y
    \/ a.y = b.y /\ a.m < b.m
    \/ a.y = b.y /\ a.m = b.m /\ a.d < b.d
CivilLE(a, b) == ~CivilBefore(b, a)

CivilOf(date) == [y |-> getFullYear(date), m |-> getMonth(date) + 1, d |-> getDate(date)]

----------------------------------------------------------------------------
(* Bounds and input sets                                                    *)

MaxYearSpan    == 2   \* calendar probes cover 2023 .. 2023 + MaxYearSpan
MaxProbeMonths == 3   \* isActiveInMonth is probed in this many months from January 2024
MaxQty         == 2   \* whole amounts and quantities range over -1 .. MaxQty

ProbeYears == {2000, 2100} \cup (2023..(2023 + MaxYearSpan))

(* month i (0 = January 2024, -1 = December 2023, ...) as year and month *)
ProbeMonth(i) == [y |-> 2023 + ((12 + i) \div 12), m |-> ((12 + i) % 12) + 1]

ProbeDates ==
    {SqlNull, SqlZeroDate} \cup
    UNION { { SqlDate(ProbeMonth(i).y, ProbeMonth(i).m, d) :
                d \in {1, 15, DaysInMonth(ProbeMonth(i).y, ProbeMonth(i).m)} } :
            i \in (-1)..MaxProbeMonths }

RealDate(x) == x.t = "date" /\ x # SqlZeroDate

ProbeCycles ==
    { SqlNull, SqlText(<<>>), SqlText(Monthly),
      SqlText(<<"M", "o", "n", "t", "h", "l", "y">>),
      SqlText(<<"M", "O", "N", "T", "H", "L", "Y">>),
      SqlText(<<"y", "e", "a", "r", "l", "y">>),
      SqlText(<<"Q", "u", "a", "r", "t", "e", "r", "l", "y">>) }

ProbeFlags == {SqlNull, SqlInt(0), SqlInt(1), SqlInt(2)}

WholeNumbers == ((-1)..MaxQty) \cup {50}
NumericValues ==
    {SqlNull} \cup {SqlInt(v) : v \in WholeNumbers} \cup {SqlDec(v) : v \in WholeNumbers}
MalformedValues ==
    { SqlText(<<"a", "b", "c">>), SqlText(<<>>),
      SqlText(<<"I", "n", "f", "i", "n", "i", "t", "y">>),
      SqlText(<<"-", "I", "n", "f", "i", "n", "i", "t", "y">>) }

RecurringRow(id, amount, quantity, unit, start, end, active, cycle) ==
    [id |-> SqlInt(id), amount |-> amount, quantity |-> quantity,
     unit_amount |-> unit, start_date |-> start, end_date |-> end,
     active |-> active, billing_cycle |-> cycle]

Idle == [fn |-> "idle"]

----------------------------------------------------------------------------
(* Calls of the pure helpers on bounded inputs.  call holds the arguments  *)
(* as stored values and civil dates, and the value the helper returned.    *)

(* no request to the sales handlers; autoInc is the AUTO_INCREMENT counter *)
(* of the two sales tables                                                 *)
NoSale ==
    [pc |-> "idle", table |-> "", method |-> "", body |-> <<>>, res |-> <<>>,
     served |-> 0, autoInc |-> [oneoff_sales |-> 1, recurring_sales |-> 1]]

NoLocals ==
    [fetched |-> FALSE, today |-> <<>>, fyStart |-> JsNull, sMonth |-> JsNull,
     eMonth |-> JsNull, oneoffYTD |-> JsNull, oneoffThisMonth |-> JsNull,
     draftsTotal |-> JsNull, recurring |-> <<>>, recurringYTD |-> Num(0),
     recurringMonth |-> Num(0), activeClients |-> JsNull]

HandlerIdle ==
    /\ pool = [created |-> FALSE, built |-> 0, inUse |-> 0]
    /\ now = JsNull
    /\ recurring_sales = <<>>
    /\ oneoff_sales = <<>>
    /\ clients = <<>>
    /\ tasks = <<>>
    /\ pc = "idle"
    /\ method = "GET"
    /\ conn = "none"
    /\ releases = 0
    /\ loc = NoLocals
    /\ res = <<>>
    /\ reqs = <<>>
    /\ sale = NoSale
    /\ projects = <<>>

HandlerUnchanged ==
    UNCHANGED <<pool, now, recurring_sales, oneoff_sales, clients, tasks,
                pc, method, conn, releases, loc, res, reqs, sale, projects>>

InitFn == call = Idle /\ HandlerIdle

CallFirstOfMonth ==
    /\ call = Idle
    /\ \E y \in ProbeYears, m \in 1..12 : \E d \in 1..DaysInMonth(y, m) :
          call' = [fn |-> "firstOfMonth", y |-> y, m |-> m, d |-> d,
                   ret |-> firstOfMonth(NewDate(y, m - 1, d))]
    /\ HandlerUnchanged

CallLastOfMonth ==
    /\ call = Idle
    /\ \E y \in ProbeYears, m \in 1..12 : \E d \in 1..DaysInMonth(y, m) :
          call' = [fn |-> "lastOfMonth", y |-> y, m |-> m, d |-> d,
                   ret |-> lastOfMonth(NewDate(y, m - 1, d))]
    /\ HandlerUnchanged

CallFyStartFor ==
    /\ call = Idle
    /\ \E y \in ProbeYears, m \in 1..12 : \E d \in 1..DaysInMonth(y, m) :
          call' = [fn |-> "fyStartFor", y |-> y, m |-> m, d |-> d,
                   ret |-> fyStartFor(NewDate(y, m - 1, d))]
    /\ HandlerUnchanged

CallNextMonth ==
    /\ call = Idle
    /\ \E y \in ProbeYears, m \in 1..12 :
          call' = [fn |-> "nextMonth", y |-> y, m |-> m, d |-> 1,
                   ret |-> nextMonth(NewDate(y, m - 1, 1))]
    /\ HandlerUnchanged

(* sumRecurringForMonth over a one-row result set: the row's activity in   *)
(* the month and what it adds to the month's sum                           *)
CallIsActiveInMonth ==
    /\ call = Idle
    /\ \E start \in ProbeDates, end \in ProbeDates, active \in ProbeFlags,
          cycle \in ProbeCycles, amount \in {SqlNull, SqlDec(80)},
          i \in 0..(MaxProbeMonths - 1) :
          LET mo  == ProbeMonth(i)
              row == RecurringRow(1, amount, SqlInt(2), SqlDec(50),
                                  start, end, active, cycle)
          IN  \E d \in {1, DaysInMonth(mo.y, mo.m)} :
                call' = [fn |-> "isActiveInMonth", rec |-> row,
                         y |-> mo.y, m |-> mo.m, d |-> d,
                         ret |-> isActiveInMonth(RowFromDriver(row),
                                                 NewDate(mo.y, mo.m - 1, d)),
                         sum |-> sumRecurringForMonth(<<RowFromDriver(row)>>,
                                                      NewDate(mo.y, mo.m - 1, d))]
    /\ HandlerUnchanged

AmountRow(amount, quantity, unit) ==
    RecurringRow(1, amount, quantity, unit, SqlNull, SqlNull, SqlNull, SqlNull)

CallRowAmount ==
    /\ call = Idle
    /\ \E amount \in NumericValues \cup MalformedValues, quantity \in NumericValues,
          unit \in NumericValues \cup MalformedValues :
          call' = [fn |-> "rowAmount", rec |-> AmountRow(amount, quantity, unit),
                   ret |-> rowAmount(RowFromDriver(AmountRow(amount, quantity, unit)))]
    /\ HandlerUnchanged

(* the summand of the one-off SQL sums, evaluated on one row *)
CallSqlAmount ==
    /\ call = Idle
    /\ \E amount \in NumericValues, quantity \in NumericValues, unit \in NumericValues :
          call' = [fn |-> "sqlAmount", rec |-> AmountRow(amount, quantity, unit),
                   ret |-> SqlEffectiveAmount(AmountRow(amount, quantity, unit))]
    /\ HandlerUnchanged

Return ==
    /\ call # Idle
    /\ call' = Idle
    /\ HandlerUnchanged

NextFn ==
    \/ CallFirstOfMonth
    \/ CallLastOfMonth
    \/ CallFyStartFor
    \/ CallNextMonth
    \/ CallIsActiveInMonth
    \/ CallRowAmount
    \/ CallSqlAmount
    \/ Return

SpecFn == InitFn /\ [][NextFn]_vars

----------------------------------------------------------------------------
(* The SQL of the handler's queries                                         *)

SqlLower(s) == [i \in 1..Len(s) |-> LowerChar(s[i])]

RECURSIVE SqlTrim(_)
SqlTrim(s) ==
    IF Len(s) = 0 THEN s
    ELSE IF s[1] = " " THEN SqlTrim(Tail(s))
    ELSE IF s[Len(s)] = " " THEN SqlTrim(SubSeq(s, 1, Len(s) - 1))
    ELSE s

(* a 'YYYY-MM-DD' parameter compared with a DATE column *)
SqlParseDate(s) ==
    [y |-> ParseDigits(SubSeq(s, 1, 4)), m |-> ParseDigits(SubSeq(s, 6, 7)),
     d |-> ParseDigits(SubSeq(s, 9, 10))]

(* the upper end of the range left out *)
SqlBetween_exclusive(x, lo, hi) ==
    /\ x.t = "date"
    /\ CivilLE(SqlParseDate(lo), [y |-> x.y, m |-> x.m, d |-> x.d])
    /\ CivilBefore([y |-> x.y, m |-> x.m, d |-> x.d], SqlParseDate(hi))

(* sale_date BETWEEN lo AND hi; NULL is in no range *)
SqlBetween(x, lo, hi) ==
    /\ x.t = "date"
    /\ CivilLE(SqlParseDate(lo), [y |-> x.y, m |-> x.m, d |-> x.d])
    /\ CivilLE([y |-> x.y, m |-> x.m, d |-> x.d], SqlParseDate(hi))

(* LOWER(status) IN (...) ; NULL is in no list *)
SqlLowerIn(x, list) == x.t = "text" /\ SqlLower(x.s) \in list

Sent  == <<"s", "e", "n", "t">>
Paid  == <<"p", "a", "i", "d">>
Draft == <<"d", "r", "a", "f", "t">>
Open  == <<"o", "p", "e", "n">>
Active   == <<"a", "c", "t", "i", "v", "e">>
Inactive == <<"i", "n", "a", "c", "t", "i", "v", "e">>
Archived == <<"a", "r", "c", "h", "i", "v", "e", "d">>
Closed   == <<"c", "l", "o", "s", "e", "d">>

RECURSIVE SqlSumAmount(_)
SqlSumAmount(rows) ==
    IF Len(rows) = 0 THEN 0
    ELSE SqlEffectiveAmount(rows[1]) + SqlSumAmount(Tail(rows))

(* SELECT COALESCE(SUM(...),0) AS total ... : one row, total a DECIMAL *)
SelectOneoffBetween(table, lo, hi) ==
    [total |-> FromDriver(SqlDec(SqlSumAmount(SelectSeq(table,
        LAMBDA r : SqlLowerIn(r.status, {Sent, Paid}) /\ SqlBetween(r.sale_date, lo, hi)))))]

SelectDrafts(table) ==
    [total |-> FromDriver(SqlDec(SqlSumAmount(SelectSeq(table,
        LAMBDA r : SqlLowerIn(r.status, {Draft})))))]

SelectRecurring(table) == [i \in 1..Len(table) |-> RowFromDriver(table[i])]

(* COALESCE(NULLIF(TRIM(LOWER(status)), ''), 'active') *)
SqlClientStatus(x) ==
    IF x.t = "null" THEN Active
    ELSE IF SqlTrim(SqlLower(x.s)) = <<>> THEN Active
    ELSE SqlTrim(SqlLower(x.s))

(* the rule of the earlier revision: WHERE LOWER(status)='active' *)
SelectActiveClients_exactActive(table) ==
    [c |-> Len(SelectSeq(table, LAMBDA r : SqlLowerIn(r.status, {Active})))]

SelectActiveClients(table) ==
    [c |-> Len(SelectSeq(table,
        LAMBDA r : SqlClientStatus(r.status) \notin {Inactive, Archived, Closed}))]

SelectOpenTasks(table) ==
    [c |-> Len(SelectSeq(table, LAMBDA r : SqlLowerIn(r.status, {Open})))]

----------------------------------------------------------------------------
(* api/dashboard/index.js, handler                                          *)

connectionLimit == 3

(* mutant: a pool built by every call *)
getPool_uncached(p) == [p EXCEPT !.created = TRUE, !.built = @ + 1]

(* api/lib/db.js: if (!pool) { pool = mysql.createPool(...) } return pool *)
getPool(p) == IF p.created THEN p ELSE [p EXCEPT !.created = TRUE, !.built = @ + 1]

(* mutant: the loop runs one month past the month of "now" *)
RECURSIVE ytdLoop_pastNow(_, _, _, _)
ytdLoop_pastNow(cursor, eMonth, recurring, acc) ==
    IF DateLE(cursor, nextMonth(eMonth))
    THEN ytdLoop_pastNow(nextMonth(cursor), eMonth, recurring,
                         NumAdd(acc, sumRecurringForMonth(recurring, cursor)))
    ELSE acc

(* mutant: the loop stops before the month of "now" *)
RECURSIVE ytdLoop_beforeNow(_, _, _, _)
ytdLoop_beforeNow(cursor, eMonth, recurring, acc) ==
    IF DateLE(nextMonth(cursor), eMonth)
    THEN ytdLoop_beforeNow(nextMonth(cursor), eMonth, recurring,
                           NumAdd(acc, sumRecurringForMonth(recurring, cursor)))
    ELSE acc

(* for (cursor = ...; cursor <= eMonth; cursor = next month)               *)
(*     recurringYTD += sumRecurringForMonth(cursor)                        *)
RECURSIVE ytdLoop(_, _, _, _)
ytdLoop(cursor, eMonth, recurring, acc) ==
    IF DateLE(cursor, eMonth)
    THEN ytdLoop(nextMonth(cursor), eMonth, recurring,
                 NumAdd(acc, sumRecurringForMonth(recurring, cursor)))
    ELSE acc

(* the months left in the calendar year rather than in the fiscal year *)
monthsLeftFor_calendarYear(m) == 11 - m

(* mutant: one month more, the April that follows the fiscal year *)
monthsLeftFor_throughApril(m) == IF m <= 2 THEN 3 - m ELSE 15 - m

monthsLeftFor(m) == IF m <= 2 THEN 2 - m ELSE 14 - m

(* for (i = 0; i < monthsLeft; i++) { projection += ...; projCursor = next } *)
RECURSIVE projectionLoop(_, _, _, _, _)
projectionLoop(i, monthsLeft, projCursor, recurring, acc) ==
    IF i < monthsLeft
    THEN projectionLoop(i + 1, monthsLeft, nextMonth(projCursor), recurring,
                        NumAdd(acc, sumRecurringForMonth(recurring, projCursor)))
    ELSE acc

(* monthlyIncome * 0.15, kept exact as a ratio *)
TimesGst(a) == IF a.k = "fin" THEN [k |-> "ratio", n |-> a.v * 15, d |-> 100] ELSE a

(* the response of the earlier revision: six cards, no monthlyIncome *)
Cards_earlierRevision(l, nowDate, openTasks) ==
    LET ytd             == NumAdd(ToNumber(l.oneoffYTD.total), l.recurringYTD)
        incomeThisMonth == NumAdd(ToNumber(l.oneoffThisMonth.total), l.recurringMonth)
        m               == getMonth(nowDate)
        projection      == projectionLoop(0, monthsLeftFor(m),
                               NewDate(getFullYear(nowDate), m + 1, 1),
                               l.recurring, Num(0))
    IN  [expectedIncome |-> NumAdd(ytd, projection),
         ytd            |-> ytd,
         gstThisMonth   |-> TimesGst(incomeThisMonth),
         draftsTotal    |-> ToNumber(l.draftsTotal.total),
         activeClients  |-> l.activeClients.c,
         openTasks      |-> openTasks.c]

(* mutant: the projection computed from the table as it is at the end *)
Cards_projectionRefetched(l, nowDate, openTasks) ==
    LET ytd            == NumAdd(ToNumber(l.oneoffYTD.total), l.recurringYTD)
        monthlyIncome  == NumAdd(ToNumber(l.oneoffThisMonth.total), l.recurringMonth)
        m              == getMonth(nowDate)
        projection     == projectionLoop(0, monthsLeftFor(m),
                              NewDate(getFullYear(nowDate), m + 1, 1),
                              [i \in 1..Len(recurring_sales) |->
                                  RowFromDriver(recurring_sales[i])], Num(0))
    IN  [expectedIncome |-> NumAdd(ytd, projection),
         ytd            |-> ytd,
         monthlyIncome  |-> monthlyIncome,
         gstThisMonth   |-> TimesGst(monthlyIncome),
         draftsTotal    |-> ToNumber(l.draftsTotal.total),
         activeClients  |-> l.activeClients.c,
         openTasks      |-> openTasks.c]

Cards(l, nowDate, openTasks) ==
    LET ytd            == NumAdd(ToNumber(l.oneoffYTD.total), l.recurringYTD)
        monthlyIncome  == NumAdd(ToNumber(l.oneoffThisMonth.total), l.recurringMonth)
        m              == getMonth(nowDate)
        projection     == projectionLoop(0, monthsLeftFor(m),
                              NewDate(getFullYear(nowDate), m + 1, 1),
                              l.recurring, Num(0))
    IN  [expectedIncome |-> NumAdd(ytd, projection),
         ytd            |-> ytd,
         monthlyIncome  |-> monthlyIncome,
         gstThisMonth   |-> TimesGst(monthlyIncome),
         draftsTotal    |-> ToNumber(l.draftsTotal.total),
         activeClients  |-> l.activeClients.c,
         openTasks      |-> openTasks.c]

Respond(status, body) == [status |-> status, body |-> body]

(* mutant: every step of the handler clears the drafts away *)
TablesUnchanged_draftsSwept ==
    /\ oneoff_sales' = SelectSeq(oneoff_sales, LAMBDA r : ~SqlLowerIn(r.status, {Draft}))
    /\ UNCHANGED <<recurring_sales, clients, tasks>>

TablesUnchanged == UNCHANGED <<recurring_sales, oneoff_sales, clients, tasks>>

(* if (req.method === "OPTIONS") return res.status(200).end() *)
RequestOptions ==
    /\ pc = "idle"
    /\ method' = "OPTIONS"
    /\ res' = Append(res, Respond(200, [kind |-> "end"]))
    /\ pc' = "done"
    /\ UNCHANGED <<call, reqs, sale, projects, pool, now, conn, releases, loc>>
    /\ TablesUnchanged

(* if (req.method !== "GET") return res.status(405).json(...) *)
RequestOther ==
    /\ pc = "idle"
    /\ \E m \in {"POST", "PUT", "DELETE"} : method' = m
    /\ res' = Append(res, Respond(405, [kind |-> "error", error |-> "Method Not Allowed"]))
    /\ pc' = "done"
    /\ UNCHANGED <<call, reqs, sale, projects, pool, now, conn, releases, loc>>
    /\ TablesUnchanged

(* const pool = getPool(); const conn = await pool.getConnection() *)
RequestGet ==
    /\ pc = "idle"
    /\ method' = "GET"
    /\ pool' = getPool(pool)
    /\ pc' = "getConnection"
    /\ UNCHANGED <<call, reqs, sale, projects, now, conn, releases, loc, res>>
    /\ TablesUnchanged

(* inputs of the handler: the date of the request and the tables *)
MaxNowMonths     == 15  \* "now" ranges over this many months from January 2024
MaxRecurringRows == 2   \* rows in recurring_sales

NowDates ==
    UNION { { NewDate(ProbeMonth(i).y, ProbeMonth(i).m - 1, d) :
                d \in {15, DaysInMonth(ProbeMonth(i).y, ProbeMonth(i).m)} } :
            i \in 0..(MaxNowMonths - 1) }

RecurringPool ==
    << \* the record of the spec's end-to-end scenario
       [amount |-> SqlNull, quantity |-> SqlInt(2), unit_amount |-> SqlDec(50),
        start_date |-> SqlDate(2024, 1, 1), end_date |-> SqlNull,
        active |-> SqlNull, billing_cycle |-> SqlText(Monthly)],
       \* open on both sides, explicit amount
       [amount |-> SqlDec(80), quantity |-> SqlInt(1), unit_amount |-> SqlDec(0),
        start_date |-> SqlNull, end_date |-> SqlNull,
        active |-> SqlInt(1), billing_cycle |-> SqlNull],
       \* active in April and May 2024 only
       [amount |-> SqlDec(30), quantity |-> SqlInt(1), unit_amount |-> SqlDec(0),
        start_date |-> SqlDate(2024, 4, 1), end_date |-> SqlDate(2024, 5, 31),
        active |-> SqlInt(1), billing_cycle |-> SqlText(Monthly)],
       \* starts in mid-September 2024
       [amount |-> SqlNull, quantity |-> SqlInt(3), unit_amount |-> SqlDec(7),
        start_date |-> SqlDate(2024, 9, 15), end_date |-> SqlNull,
        active |-> SqlNull, billing_cycle |-> SqlText(<<"M", "o", "n", "t", "h", "l", "y">>)],
       \* over the turn of the year
       [amount |-> SqlDec(11), quantity |-> SqlNull, unit_amount |-> SqlNull,
        start_date |-> SqlDate(2024, 12, 31), end_date |-> SqlDate(2025, 1, 1),
        active |-> SqlInt(1), billing_cycle |-> SqlText(Monthly)],
       \* ended with the fiscal year 2023
       [amount |-> SqlDec(13), quantity |-> SqlInt(1), unit_amount |-> SqlDec(0),
        start_date |-> SqlNull, end_date |-> SqlDate(2024, 3, 31),
        active |-> SqlNull, billing_cycle |-> SqlNull],
       \* switched off
       [amount |-> SqlDec(17), quantity |-> SqlInt(1), unit_amount |-> SqlDec(0),
        start_date |-> SqlNull, end_date |-> SqlNull,
        active |-> SqlInt(0), billing_cycle |-> SqlText(Monthly)],
       \* billed yearly
       [amount |-> SqlDec(19), quantity |-> SqlInt(1), unit_amount |-> SqlDec(0),
        start_date |-> SqlNull, end_date |-> SqlNull,
        active |-> SqlInt(1), billing_cycle |-> SqlText(<<"y", "e", "a", "r", "l", "y">>)] >>

WithId(row, id) ==
    RecurringRow(id, row.amount, row.quantity, row.unit_amount,
                 row.start_date, row.end_date, row.active, row.billing_cycle)

(* tables of up to MaxRecurringRows rows of the pool, ids by position *)
RecurringTables ==
    { [i \in 1..Len(ix) |-> WithId(RecurringPool[ix[i]], i)] :
        ix \in { f \in UNION { [1..n -> 1..Len(RecurringPool)] : n \in 0..MaxRecurringRows } :
                   \A i \in 1..(Len(f) - 1) : f[i] <= f[i + 1] } }

OneoffRow(id, amount, quantity, unit, status, date) ==
    [id |-> SqlInt(id), amount |-> amount, quantity |-> quantity,
     unit_amount |-> unit, status |-> status, sale_date |-> date]

OneoffTables ==
    { <<>>,
      << OneoffRow(1, SqlDec(40), SqlInt(1), SqlDec(0), SqlText(<<"S", "e", "n", "t">>),
                   SqlDate(2024, 6, 15)),
         OneoffRow(2, SqlNull, SqlInt(2), SqlDec(9), SqlText(Paid), SqlDate(2024, 4, 1)),
         OneoffRow(3, SqlDec(5), SqlInt(1), SqlDec(0), SqlText(Draft), SqlNull) >> }

ClientsTable ==
    << [id |-> SqlInt(1), status |-> SqlNull],
       [id |-> SqlInt(2), status |-> SqlText(<<"A", "r", "c", "h", "i", "v", "e", "d">>)],
       [id |-> SqlInt(3), status |-> SqlText(<<" ">>)] >>

TasksTable ==
    << [id |-> SqlInt(1), status |-> SqlText(Open)],
       [id |-> SqlInt(2), status |-> SqlText(<<"d", "o", "n", "e">>)] >>

Init ==
    /\ call = Idle
    /\ pool = [created |-> FALSE, built |-> 0, inUse |-> 0]
    /\ now = JsNull
    /\ recurring_sales \in RecurringTables
    /\ oneoff_sales \in OneoffTables
    /\ clients = ClientsTable
    /\ tasks = TasksTable
    /\ pc = "idle"
    /\ method = "GET"
    /\ conn = "none"
    /\ releases = 0
    /\ loc = NoLocals
    /\ res = <<>>
    /\ reqs = <<>>
    /\ sale = NoSale
    /\ projects = <<>>

(* the connection is granted; const now = new Date() ... eMonth; query 1 is sent *)
GetConnection ==
    /\ pc = "getConnection"
    /\ pool.inUse < connectionLimit
    /\ pool' = [pool EXCEPT !.inUse = @ + 1]
    /\ conn' = "held"
    /\ \E t \in NowDates :
          /\ now' = t
          /\ loc' = [NoLocals EXCEPT !.today = ymd(t), !.fyStart = fyStartFor(t),
                                     !.sMonth = firstOfMonth(t), !.eMonth = lastOfMonth(t)]
    /\ pc' = "oneoffYTD"
    /\ UNCHANGED <<call, reqs, sale, projects, method, releases, res>>
    /\ TablesUnchanged

(* pool.getConnection() rejects: the await is outside the try, so the      *)
(* handler's promise rejects with nothing sent and nothing to release      *)
GetConnectionFails ==
    /\ pc = "getConnection"
    /\ pc' = "rejected"
    /\ UNCHANGED <<call, reqs, sale, projects, pool, now, method, conn, releases, loc, res>>
    /\ TablesUnchanged

(* mutant: the year's window run to the end of the fiscal year *)
QueryOneoffYTD_wholeYear ==
    /\ pc = "oneoffYTD"
    /\ loc' = [loc EXCEPT !.oneoffYTD =
                  SelectOneoffBetween(oneoff_sales, ymd(loc.fyStart),
                      ymd(NewDate(getFullYear(loc.fyStart) + 1, 2, 31)))]
    /\ pc' = "oneoffThisMonth"
    /\ UNCHANGED <<call, reqs, sale, projects, pool, now, method, conn, releases, res>>
    /\ TablesUnchanged

QueryOneoffYTD ==
    /\ pc = "oneoffYTD"
    /\ loc' = [loc EXCEPT !.oneoffYTD =
                  SelectOneoffBetween(oneoff_sales, ymd(loc.fyStart), loc.today)]
    /\ pc' = "oneoffThisMonth"
    /\ UNCHANGED <<call, reqs, sale, projects, pool, now, method, conn, releases, res>>
    /\ TablesUnchanged

(* mutant: the month's window cut at today *)
QueryOneoffThisMonth_toToday ==
    /\ pc = "oneoffThisMonth"
    /\ loc' = [loc EXCEPT !.oneoffThisMonth =
                  SelectOneoffBetween(oneoff_sales, ymd(loc.sMonth), loc.today)]
    /\ pc' = "draftsTotal"
    /\ UNCHANGED <<call, reqs, sale, projects, pool, now, method, conn, releases, res>>
    /\ TablesUnchanged

QueryOneoffThisMonth ==
    /\ pc = "oneoffThisMonth"
    /\ loc' = [loc EXCEPT !.oneoffThisMonth =
                  SelectOneoffBetween(oneoff_sales, ymd(loc.sMonth), ymd(loc.eMonth))]
    /\ pc' = "draftsTotal"
    /\ UNCHANGED <<call, reqs, sale, projects, pool, now, method, conn, releases, res>>
    /\ TablesUnchanged

(* mutant: the drafts restricted to the fiscal year to date *)
QueryDraftsTotal_inFiscalYear ==
    /\ pc = "draftsTotal"
    /\ loc' = [loc EXCEPT !.draftsTotal =
                  SelectDrafts(SelectSeq(oneoff_sales, LAMBDA r :
                      SqlBetween(r.sale_date, ymd(loc.fyStart), loc.today)))]
    /\ pc' = "recurring"
    /\ UNCHANGED <<call, reqs, sale, projects, pool, now, method, conn, releases, res>>
    /\ TablesUnchanged

QueryDraftsTotal ==
    /\ pc = "draftsTotal"
    /\ loc' = [loc EXCEPT !.draftsTotal = SelectDrafts(oneoff_sales)]
    /\ pc' = "recurring"
    /\ UNCHANGED <<call, reqs, sale, projects, pool, now, method, conn, releases, res>>
    /\ TablesUnchanged

(* the recurring rows arrive; recurringYTD and recurringMonth are computed *)
QueryRecurring ==
    /\ pc = "recurring"
    /\ LET recurring == SelectRecurring(recurring_sales)
       IN  loc' = [loc EXCEPT
                     !.fetched = TRUE,
                     !.recurring = recurring,
                     !.recurringYTD = ytdLoop(firstOfMonth(loc.fyStart), loc.eMonth,
                                              recurring, Num(0)),
                     !.recurringMonth = sumRecurringForMonth(recurring, now)]
    /\ pc' = "activeClients"
    /\ UNCHANGED <<call, reqs, sale, projects, pool, now, method, conn, releases, res>>
    /\ TablesUnchanged

QueryActiveClients ==
    /\ pc = "activeClients"
    /\ loc' = [loc EXCEPT !.activeClients = SelectActiveClients(clients)]
    /\ pc' = "openTasks"
    /\ UNCHANGED <<call, reqs, sale, projects, pool, now, method, conn, releases, res>>
    /\ TablesUnchanged

(* the last count arrives: final numbers, the 200 response, finally release *)
QueryOpenTasks ==
    /\ pc = "openTasks"
    /\ res' = Append(res, Respond(200,
                 [kind |-> "cards", ok |-> TRUE,
                  cards |-> Cards(loc, now, SelectOpenTasks(tasks))]))
    /\ conn' = "released"
    /\ releases' = releases + 1
    /\ pool' = [pool EXCEPT !.inUse = @ - 1]
    /\ loc' = NoLocals
    /\ pc' = "done"
    /\ UNCHANGED <<call, reqs, sale, projects, now, method>>
    /\ TablesUnchanged

QueryPcs == {"oneoffYTD", "oneoffThisMonth", "draftsTotal", "recurring",
             "activeClients", "openTasks"}

(* any conn.query rejects: catch answers 500, finally releases *)
QueryFails ==
    /\ pc \in QueryPcs
    /\ res' = Append(res, Respond(500,
                 [kind |-> "error", ok |-> FALSE, error |-> "Internal Server Error"]))
    /\ conn' = "released"
    /\ releases' = releases + 1
    /\ pool' = [pool EXCEPT !.inUse = @ - 1]
    /\ loc' = NoLocals
    /\ pc' = "done"
    /\ UNCHANGED <<call, reqs, sale, projects, now, method>>
    /\ TablesUnchanged

(* the same instance takes the next invocation; the module-level pool stays *)
NextRequest ==
    /\ pc \in {"done", "rejected"}
    /\ pc' = "idle"
    /\ now' = JsNull
    /\ conn' = "none"
    /\ releases' = 0
    /\ res' = <<>>
    /\ UNCHANGED <<call, reqs, sale, projects, pool, method, loc>>
    /\ TablesUnchanged

Next ==
    \/ RequestOptions
    \/ RequestOther
    \/ RequestGet
    \/ GetConnection
    \/ GetConnectionFails
    \/ QueryOneoffYTD
    \/ QueryOneoffThisMonth
    \/ QueryDraftsTotal
    \/ QueryRecurring
    \/ QueryActiveClients
    \/ QueryOpenTasks
    \/ QueryFails
    \/ NextRequest

Spec == Init /\ [][Next]_vars

----------------------------------------------------------------------------
(* What the claims say, on the stored record and the civil month of call.  *)

InCall(f) == call.fn = f

MonthFirst == [y |-> call.y, m |-> call.m, d |-> 1]
MonthLast  == [y |-> call.y, m |-> call.m, d |-> DaysInMonth(call.y, call.m)]
NextMonthFirst ==
    IF call.m = 12 THEN [y |-> call.y + 1, m |-> 1, d |-> 1]
    ELSE [y |-> call.y, m |-> call.m + 1, d |-> 1]
Civil(x) == [y |-> x.y, m |-> x.m, d |-> x.d]

UpperMonthly == <<"M", "O", "N", "T", "H", "L", "Y">>
AnyCasingOfMonthly(s) ==
    Len(s) = 7 /\ \A i \in 1..7 : s[i] \in {Monthly[i], UpperMonthly[i]}

FlagActive(rec) == rec.active = SqlNull \/ rec.active = SqlInt(1)
CycleAbsent(rec) ==
    rec.billing_cycle = SqlNull \/ rec.billing_cycle = SqlText(<<>>)
CycleMonthly(rec) ==
    \/ CycleAbsent(rec)
    \/ rec.billing_cycle.t = "text" /\ AnyCasingOfMonthly(rec.billing_cycle.s)
StartOkIn(rec, y, m) ==
    \/ rec.start_date = SqlNull
    \/ /\ RealDate(rec.start_date)
       /\ CivilLE(Civil(rec.start_date), [y |-> y, m |-> m, d |-> DaysInMonth(y, m)])
EndOkIn(rec, y, m) ==
    \/ rec.end_date = SqlNull
    \/ /\ RealDate(rec.end_date)
       /\ CivilLE([y |-> y, m |-> m, d |-> 1], Civil(rec.end_date))
StartOk(rec) == StartOkIn(rec, call.y, call.m)
EndOk(rec) == EndOkIn(rec, call.y, call.m)
InMonth(x) == RealDate(x) /\ x.y = call.y /\ x.m = call.m

(* amount if stored, else quantity x unit_amount, on whole stored numbers *)
FullAmount(rec) ==
    IF rec.amount # SqlNull THEN rec.amount.v
    ELSE (IF rec.quantity = SqlNull THEN 0 ELSE rec.quantity.v)
         * (IF rec.unit_amount = SqlNull THEN 0 ELSE rec.unit_amount.v)

IsNumeric(x) == x.t \in {"int", "decimal"}
NumericOrNull(x) == x = SqlNull \/ IsNumeric(x)

(* C1: a recurring record is active in month M iff its flag is null or 1,  *)
(* its billing cycle (absent or empty defaulting to monthly) is "monthly"  *)
(* in any casing, its start_date is absent or on or before the last day of *)
(* M and its end_date is absent or on or after the first day of M; an      *)
(* active record adds its full effective amount to M, an inactive one 0.   *)
C1_ActiveIffFourConditions ==
    InCall("isActiveInMonth") =>
        /\ call.ret <=> ( FlagActive(call.rec) /\ CycleMonthly(call.rec)
                          /\ StartOk(call.rec) /\ EndOk(call.rec) )
        /\ call.sum = (IF call.ret THEN Num(FullAmount(call.rec)) ELSE Num(0))

(* a record starting in mid-month is active and adds its whole amount *)
C1_Witness ==
    /\ InCall("isActiveInMonth")
    /\ call.ret
    /\ InMonth(call.rec.start_date) /\ call.rec.start_date.d = 15
    /\ InMonth(call.rec.end_date) /\ call.rec.end_date.d = 15
    /\ call.rec.amount = SqlNull
    /\ call.sum = Num(100)

(* C2: an active monthly record without end date that starts on the last   *)
(* day of M is active in M; starting on the first day of the next month it *)
(* is not.                                                                 *)
C2_StartBoundary ==
    ( /\ InCall("isActiveInMonth")
      /\ FlagActive(call.rec) /\ CycleMonthly(call.rec)
      /\ call.rec.end_date = SqlNull
      /\ RealDate(call.rec.start_date) ) =>
        /\ Civil(call.rec.start_date) = MonthLast => call.ret
        /\ Civil(call.rec.start_date) = NextMonthFirst => ~call.ret

C2_Witness ==
    /\ InCall("isActiveInMonth")
    /\ FlagActive(call.rec) /\ CycleMonthly(call.rec)
    /\ call.rec.end_date = SqlNull
    /\ call.y = 2024 /\ call.m = 2
    /\ call.rec.start_date = SqlDate(2024, 2, 29)
    /\ call.ret

BothBoundsSet(rec) == rec.start_date # SqlNull /\ rec.end_date # SqlNull
Inverted(rec) ==
    /\ RealDate(rec.start_date) /\ RealDate(rec.end_date)
    /\ CivilBefore(Civil(rec.end_date), Civil(rec.start_date))
(* some calendar day lies in [start_date, end_date] and in M *)
Overlaps(rec) ==
    /\ RealDate(rec.start_date) /\ RealDate(rec.end_date)
    /\ CivilLE(Civil(rec.start_date), Civil(rec.end_date))
    /\ CivilLE(Civil(rec.start_date), MonthLast)
    /\ CivilLE(MonthFirst, Civil(rec.end_date))

(* C3 as claimed: a record with both bounds set is counted in M only if a  *)
(* calendar day lies both in [start_date, end_date] and in M, so a record  *)
(* with start_date after end_date is counted in no month.                  *)
C3_CountedOnlyIfOverlap ==
    ( InCall("isActiveInMonth") /\ BothBoundsSet(call.rec) /\ call.ret )
        => Overlaps(call.rec)

(* C3 amended: a record with both bounds set is counted in M only if a     *)
(* calendar day lies in both intervals, or start_date is after end_date    *)
(* and both dates fall inside M; an active monthly record whose start_date *)
(* is after its end_date is counted in M exactly when both fall inside M.  *)
C3_OverlapOrInvertedInsideMonth ==
    ( InCall("isActiveInMonth") /\ BothBoundsSet(call.rec) ) =>
        /\ call.ret =>
              \/ Overlaps(call.rec)
              \/ /\ Inverted(call.rec)
                 /\ InMonth(call.rec.start_date) /\ InMonth(call.rec.end_date)
        /\ ( Inverted(call.rec) /\ FlagActive(call.rec) /\ CycleMonthly(call.rec) )
              => ( call.ret <=> ( InMonth(call.rec.start_date)
                                  /\ InMonth(call.rec.end_date) ) )

C3_Witness ==
    /\ InCall("isActiveInMonth")
    /\ Inverted(call.rec)
    /\ InMonth(call.rec.start_date) /\ InMonth(call.rec.end_date)
    /\ call.ret
    /\ call.sum # Num(0)

(* C4: a record whose billing_cycle is present (non-empty) and is not      *)
(* "monthly" in some casing is active in no month and adds nothing to a    *)
(* month's sum, whatever its flag, dates and amount; with billing_cycle    *)
(* absent or "monthly" in any casing the other three conditions decide.    *)
C4_OnlyMonthlyCycleCounts ==
    InCall("isActiveInMonth") =>
        /\ ~CycleMonthly(call.rec) => ( ~call.ret /\ call.sum = Num(0) )
        /\ CycleMonthly(call.rec) =>
              ( call.ret <=> ( FlagActive(call.rec) /\ StartOk(call.rec)
                               /\ EndOk(call.rec) ) )

C4_Witness ==
    /\ InCall("isActiveInMonth")
    /\ call.rec.billing_cycle = SqlText(<<"y", "e", "a", "r", "l", "y">>)
    /\ FlagActive(call.rec) /\ StartOk(call.rec) /\ EndOk(call.rec)
    /\ ~call.ret

(* C5: fyStartFor(d) is April 1 of d's year for April..December and April  *)
(* 1 of the previous year for January..March; it is on or before d and     *)
(* fewer than 12 months before d's month.                                  *)
C5_FiscalYearStart ==
    InCall("fyStartFor") =>
        /\ CivilOf(call.ret) =
              [y |-> IF call.m >= 4 THEN call.y ELSE call.y - 1, m |-> 4, d |-> 1]
        /\ CivilLE(CivilOf(call.ret), [y |-> call.y, m |-> call.m, d |-> call.d])
        /\ (12 * call.y + call.m) - (12 * getFullYear(call.ret) + getMonth(call.ret) + 1)
              \in 0..11

C5_Witness ==
    /\ InCall("fyStartFor")
    /\ call.y = 2024 /\ call.m = 3 /\ call.d = 31
    /\ CivilOf(call.ret) = [y |-> 2023, m |-> 4, d |-> 1]

(* C6: lastOfMonth(d) is the final day of d's month (29 for February 2024, *)
(* 28 for February 2023), firstOfMonth(d) is day 1 of the same month, and  *)
(* the month after December is January of the following year.              *)
C6_MonthWindow ==
    /\ InCall("lastOfMonth") =>
          /\ CivilOf(call.ret) = MonthLast
          /\ (call.y = 2024 /\ call.m = 2) => getDate(call.ret) = 29
          /\ (call.y = 2023 /\ call.m = 2) => getDate(call.ret) = 28
    /\ InCall("firstOfMonth") => CivilOf(call.ret) = MonthFirst
    /\ InCall("nextMonth") => CivilOf(call.ret) = NextMonthFirst

C6_Witness ==
    /\ InCall("lastOfMonth")
    /\ call.y = 2023 /\ call.m = 12 /\ call.d = 5
    /\ CivilOf(call.ret) = [y |-> 2023, m |-> 12, d |-> 31]

(* C7: with a stored numeric amount the effective amount is that amount,   *)
(* also when it is 0; with amount NULL it is quantity x unit_amount, an    *)
(* absent quantity or unit_amount counting as 0.                           *)
C7_AmountTakesPrecedence ==
    InCall("rowAmount") =>
        /\ IsNumeric(call.rec.amount) => call.ret = Num(call.rec.amount.v)
        /\ ( call.rec.amount = SqlNull /\ NumericOrNull(call.rec.unit_amount) )
              => call.ret = Num(FullAmount(call.rec))

C7_Witness ==
    /\ InCall("rowAmount")
    /\ call.rec.amount = SqlDec(0)
    /\ call.rec.quantity = SqlInt(2) /\ call.rec.unit_amount = SqlDec(50)
    /\ call.ret = Num(0)

(* C8: when the derived amount of a record is not a finite number (NaN or  *)
(* an infinity), rowAmount returns 0.                                      *)
C8_NonFiniteGivesZero ==
    ( InCall("rowAmount") /\ derivedAmount(RowFromDriver(call.rec)).k # "fin" )
        => call.ret = Num(0)

(* C9: on numeric or NULL amount, quantity and unit_amount, the summand of *)
(* the one-off SQL sums equals rowAmount of the same row as the driver     *)
(* delivers it.                                                            *)
C9_SqlAmountEqualsRowAmount ==
    InCall("sqlAmount") => Num(call.ret) = rowAmount(RowFromDriver(call.rec))

C9_Witness ==
    /\ InCall("sqlAmount")
    /\ call.rec.amount = SqlNull
    /\ call.rec.quantity = SqlNull /\ call.rec.unit_amount = SqlDec(50)
    /\ call.ret = 0

----------------------------------------------------------------------------
(* The handler's sums, stated on the stored rows and on months numbered    *)
(* 12 * year + (month - 1).                                                *)

ActiveIn(rec, y, m) ==
    FlagActive(rec) /\ CycleMonthly(rec) /\ StartOkIn(rec, y, m) /\ EndOkIn(rec, y, m)

RECURSIVE MonthTotal(_, _)
MonthTotal(table, mn) ==
    IF Len(table) = 0 THEN 0
    ELSE (IF ActiveIn(table[1], mn \div 12, (mn % 12) + 1)
          THEN FullAmount(table[1]) ELSE 0)
         + MonthTotal(Tail(table), mn)

RECURSIVE TotalOverMonths(_, _, _)
TotalOverMonths(table, from, to) ==
    IF from > to THEN 0
    ELSE MonthTotal(table, from) + TotalOverMonths(table, from + 1, to)

NowMonth == 12 * CivilOf(now).y + CivilOf(now).m - 1
(* April of the fiscal year of "now" *)
FiscalApril ==
    12 * (IF CivilOf(now).m >= 4 THEN CivilOf(now).y ELSE CivilOf(now).y - 1) + 3

(* C10: recurringYTD is the sum, over each month from April of the current *)
(* fiscal year through the month of "now", each once, of the effective     *)
(* amounts of the records active in that month, and the recurring part of  *)
(* monthlyIncome is that sum for the month of "now" alone; one always      *)
(* active record with quantity 2 and unit_amount 50 gives 300 and 100 on   *)
(* 15 June 2024.                                                           *)
C10_RecurringYTD ==
    loc.fetched =>
        /\ loc.recurringYTD =
              Num(TotalOverMonths(recurring_sales, FiscalApril, NowMonth))
        /\ loc.recurringMonth = Num(MonthTotal(recurring_sales, NowMonth))
        /\ ( /\ CivilOf(now) = [y |-> 2024, m |-> 6, d |-> 15]
             /\ recurring_sales = <<WithId(RecurringPool[1], 1)>> )
              => ( loc.recurringYTD = Num(300) /\ loc.recurringMonth = Num(100) )

C10_Witness ==
    /\ pc = "activeClients"
    /\ loc.fetched
    /\ CivilOf(now) = [y |-> 2024, m |-> 6, d |-> 15]
    /\ recurring_sales = <<WithId(RecurringPool[1], 1), WithId(RecurringPool[3], 2)>>
    /\ loc.recurringYTD = Num(360)
    /\ loc.recurringMonth = Num(100)

----------------------------------------------------------------------------
(* The last line of a 200 response, and the month number of the March that *)
(* ends the fiscal year of "now".                                          *)

Answered == pc = "done" /\ Len(res) = 1 /\ res[1].status = 200 /\ res[1].body.kind = "cards"
SentCards == res[1].body.cards
FiscalMarch == FiscalApril + 11

(* C11: monthsLeft is the number of calendar months after the month of     *)
(* "now" up to and including the March that ends the fiscal year, and the  *)
(* projection (expectedIncome less ytd) is the sum of the recurring totals *)
(* of exactly those months: four months (December to March) in November,   *)
(* no month in March.                                                      *)
C11_ProjectionMonths ==
    Answered =>
        /\ monthsLeftFor(getMonth(now)) = FiscalMarch - NowMonth
        /\ CivilOf(now).m = 11 => monthsLeftFor(getMonth(now)) = 4
        /\ CivilOf(now).m = 3 => monthsLeftFor(getMonth(now)) = 0
        /\ SentCards.expectedIncome.k = "fin"
        /\ SentCards.ytd.k = "fin"
        /\ SentCards.expectedIncome.v - SentCards.ytd.v =
              TotalOverMonths(recurring_sales, NowMonth + 1, FiscalMarch)

C11_Witness ==
    /\ Answered
    /\ CivilOf(now) = [y |-> 2024, m |-> 11, d |-> 15]
    /\ recurring_sales = <<WithId(RecurringPool[1], 1), WithId(RecurringPool[5], 2)>>
    /\ oneoff_sales = <<>>
    /\ SentCards.ytd = Num(800)
    /\ SentCards.expectedIncome = Num(1222)

----------------------------------------------------------------------------
(* The handler over varied one-off sales.                                  *)

MaxOneoffRows == 2   \* rows in oneoff_sales

OneoffPool ==
    << \* on the first day of the fiscal year 2024
       [amount |-> SqlDec(1), quantity |-> SqlInt(1), unit_amount |-> SqlDec(0),
        status |-> SqlText(Sent), sale_date |-> SqlDate(2024, 4, 1)],
       \* on the last day of the fiscal year 2023
       [amount |-> SqlDec(2), quantity |-> SqlInt(1), unit_amount |-> SqlDec(0),
        status |-> SqlText(<<"P", "A", "I", "D">>), sale_date |-> SqlDate(2024, 3, 31)],
       \* derived amount, mid-June
       [amount |-> SqlNull, quantity |-> SqlInt(2), unit_amount |-> SqlDec(9),
        status |-> SqlText(<<"S", "e", "n", "t">>), sale_date |-> SqlDate(2024, 6, 15)],
       \* the day after
       [amount |-> SqlDec(4), quantity |-> SqlInt(1), unit_amount |-> SqlDec(0),
        status |-> SqlText(Paid), sale_date |-> SqlDate(2024, 6, 16)],
       \* drafts: dated, undated, before the fiscal year, in the future
       [amount |-> SqlDec(8), quantity |-> SqlInt(1), unit_amount |-> SqlDec(0),
        status |-> SqlText(Draft), sale_date |-> SqlDate(2024, 6, 15)],
       [amount |-> SqlDec(5), quantity |-> SqlInt(1), unit_amount |-> SqlDec(0),
        status |-> SqlText(<<"D", "R", "A", "F", "T">>), sale_date |-> SqlNull],
       [amount |-> SqlDec(3), quantity |-> SqlInt(1), unit_amount |-> SqlDec(0),
        status |-> SqlText(Draft), sale_date |-> SqlDate(2023, 1, 1)],
       [amount |-> SqlNull, quantity |-> SqlInt(1), unit_amount |-> SqlDec(7),
        status |-> SqlText(Draft), sale_date |-> SqlDate(2025, 12, 31)],
       \* sent, without a date
       [amount |-> SqlDec(16), quantity |-> SqlInt(1), unit_amount |-> SqlDec(0),
        status |-> SqlText(Sent), sale_date |-> SqlNull],
       \* another status, and none
       [amount |-> SqlDec(32), quantity |-> SqlInt(1), unit_amount |-> SqlDec(0),
        status |-> SqlText(<<"c", "a", "n", "c", "e", "l", "l", "e", "d">>),
        sale_date |-> SqlDate(2024, 6, 15)],
       [amount |-> SqlDec(64), quantity |-> SqlInt(1), unit_amount |-> SqlDec(0),
        status |-> SqlNull, sale_date |-> SqlDate(2024, 6, 15)],
       \* first and last day of June, first day of July
       [amount |-> SqlDec(512), quantity |-> SqlInt(1), unit_amount |-> SqlDec(0),
        status |-> SqlText(Paid), sale_date |-> SqlDate(2024, 6, 1)],
       [amount |-> SqlDec(128), quantity |-> SqlInt(1), unit_amount |-> SqlDec(0),
        status |-> SqlText(Paid), sale_date |-> SqlDate(2024, 6, 30)],
       [amount |-> SqlDec(256), quantity |-> SqlInt(1), unit_amount |-> SqlDec(0),
        status |-> SqlText(Sent), sale_date |-> SqlDate(2024, 7, 1)] >>

OneoffWithId(row, id) ==
    OneoffRow(id, row.amount, row.quantity, row.unit_amount, row.status, row.sale_date)

(* tables of up to MaxOneoffRows rows of the pool, ids by position *)
OneoffSaleTables ==
    { [i \in 1..Len(ix) |-> OneoffWithId(OneoffPool[ix[i]], i)] :
        ix \in { f \in UNION { [1..n -> 1..Len(OneoffPool)] : n \in 0..MaxOneoffRows } :
                   \A i \in 1..(Len(f) - 1) : f[i] <= f[i + 1] } }

(* beside them: one record always active and one switched off *)
OneoffRecurring ==
    { <<WithId(RecurringPool[1], 1), WithId(RecurringPool[7], 2)>> }

InitOneoff ==
    /\ call = Idle
    /\ pool = [created |-> FALSE, built |-> 0, inUse |-> 0]
    /\ now = JsNull
    /\ recurring_sales \in OneoffRecurring
    /\ oneoff_sales \in OneoffSaleTables
    /\ clients = ClientsTable
    /\ tasks = TasksTable
    /\ pc = "idle"
    /\ method = "GET"
    /\ conn = "none"
    /\ releases = 0
    /\ loc = NoLocals
    /\ res = <<>>
    /\ reqs = <<>>
    /\ sale = NoSale
    /\ projects = <<>>

SpecOneoff == InitOneoff /\ [][Next]_vars

(* the one-off sums, stated on the stored rows *)
UpperSent  == <<"S", "E", "N", "T">>
UpperPaid  == <<"P", "A", "I", "D">>
UpperDraft == <<"D", "R", "A", "F", "T">>
AnyCasing(s, lower, upper) ==
    Len(s) = Len(lower) /\ \A i \in 1..Len(s) : s[i] \in {lower[i], upper[i]}

SentOrPaid(r) ==
    /\ r.status.t = "text"
    /\ AnyCasing(r.status.s, Sent, UpperSent) \/ AnyCasing(r.status.s, Paid, UpperPaid)
IsDraft(r) == r.status.t = "text" /\ AnyCasing(r.status.s, Draft, UpperDraft)
SoldWithin(r, lo, hi) ==
    /\ r.sale_date.t = "date"
    /\ CivilLE(lo, Civil(r.sale_date))
    /\ CivilLE(Civil(r.sale_date), hi)

RECURSIVE OneoffTotal(_, _, _)
OneoffTotal(table, lo, hi) ==
    IF Len(table) = 0 THEN 0
    ELSE (IF SentOrPaid(table[1]) /\ SoldWithin(table[1], lo, hi)
          THEN FullAmount(table[1]) ELSE 0)
         + OneoffTotal(Tail(table), lo, hi)

FiscalStart == [y |-> FiscalApril \div 12, m |-> 4, d |-> 1]
Today == CivilOf(now)

(* C12: the one-off part of ytd is the sum of the effective amounts of     *)
(* exactly the one-off sales whose status is sent or paid and whose        *)
(* sale_date lies in [1 April of the fiscal year, today], both ends        *)
(* included; a sale of another status, without a date, before the fiscal   *)
(* year or after today adds nothing.                                       *)
C12_OneoffYtdWindow ==
    /\ pc \in {"oneoffThisMonth", "draftsTotal", "recurring", "activeClients", "openTasks"}
          => ToNumber(loc.oneoffYTD.total) = Num(OneoffTotal(oneoff_sales, FiscalStart, Today))
    /\ Answered
          => SentCards.ytd = Num(OneoffTotal(oneoff_sales, FiscalStart, Today)
                                 + TotalOverMonths(recurring_sales, FiscalApril, NowMonth))

C12_Witness ==
    /\ Answered
    /\ Today = [y |-> 2024, m |-> 6, d |-> 15]
    /\ oneoff_sales = <<OneoffWithId(OneoffPool[3], 1), OneoffWithId(OneoffPool[4], 2)>>
    /\ SentCards.ytd = Num(318)

----------------------------------------------------------------------------
(* The window of the recurring part of ytd.                                *)

MonthEnd == [y |-> Today.y, m |-> Today.m, d |-> DaysInMonth(Today.y, Today.m)]

(* the record's [start_date, end_date] has no day in [lo, hi] *)
OutsideWindow(rec, lo, hi) ==
    \/ rec.start_date # SqlNull /\ CivilBefore(hi, Civil(rec.start_date))
    \/ rec.end_date # SqlNull /\ CivilBefore(Civil(rec.end_date), lo)
WithinWindow(table, lo, hi) == SelectSeq(table, LAMBDA r : ~OutsideWindow(r, lo, hi))

(* C13 as stated: the recurring part of ytd is summed over [1 April of the *)
(* fiscal year, today]; a recurring record whose validity interval has no  *)
(* day in that window (its start_date later than today, say) adds nothing. *)
C13_NothingOutsideUpToToday ==
    loc.fetched =>
        loc.recurringYTD =
            Num(TotalOverMonths(WithinWindow(recurring_sales, FiscalStart, Today),
                                FiscalApril, NowMonth))

(* C13 amended: the recurring part of ytd is summed over the whole months  *)
(* from April of the fiscal year through the month of today; a recurring   *)
(* record whose validity interval has no day in [1 April of the fiscal     *)
(* year, last day of the current month] adds nothing, and one that starts  *)
(* after today but within the current month adds its full amount.          *)
C13_NothingOutsideUpToMonthEnd ==
    loc.fetched =>
        loc.recurringYTD =
            Num(TotalOverMonths(WithinWindow(recurring_sales, FiscalStart, MonthEnd),
                                FiscalApril, NowMonth))

C13_Witness ==
    /\ loc.fetched
    /\ Today = [y |-> 2024, m |-> 12, d |-> 15]
    /\ recurring_sales = <<WithId(RecurringPool[5], 1), WithId(RecurringPool[6], 2)>>
    /\ OutsideWindow(recurring_sales[1], FiscalStart, Today)
    /\ OutsideWindow(recurring_sales[2], FiscalStart, MonthEnd)
    /\ loc.recurringYTD = Num(11)

----------------------------------------------------------------------------
MonthBegin == [y |-> Today.y, m |-> Today.m, d |-> 1]

(* C14: monthlyIncome is the sum of the sent or paid one-off sales dated   *)
(* within the current calendar month, first to last day included, plus the *)
(* effective amounts of the recurring records active in that month; drafts *)
(* and recurring records not active in the month add nothing.              *)
C14_MonthlyIncome ==
    /\ pc \in {"draftsTotal", "recurring", "activeClients", "openTasks"}
          => ToNumber(loc.oneoffThisMonth.total) =
                Num(OneoffTotal(oneoff_sales, MonthBegin, MonthEnd))
    /\ Answered
          => SentCards.monthlyIncome =
                Num(OneoffTotal(oneoff_sales, MonthBegin, MonthEnd)
                    + MonthTotal(recurring_sales, NowMonth))

C14_Witness ==
    /\ Answered
    /\ Today = [y |-> 2024, m |-> 6, d |-> 15]
    /\ oneoff_sales = <<OneoffWithId(OneoffPool[4], 1), OneoffWithId(OneoffPool[5], 2)>>
    /\ recurring_sales = <<WithId(RecurringPool[1], 1), WithId(RecurringPool[7], 2)>>
    /\ SentCards.monthlyIncome = Num(104)

----------------------------------------------------------------------------
(* the one-off sales that are not dated after today *)
NotAfterToday(table) ==
    SelectSeq(table, LAMBDA r :
        ~(r.sale_date.t = "date" /\ CivilBefore(Today, Civil(r.sale_date))))
EndOfTime == [y |-> 9999, m |-> 12, d |-> 31]

(* C15: expectedIncome is ytd plus the projection, and the projection is   *)
(* made of recurring revenue only: the one-off sales dated after today     *)
(* change neither of them, expectedIncome being fixed by the recurring     *)
(* records and the one-off sales not dated after today; with no negative   *)
(* amount, expectedIncome is at least ytd.                                 *)
C15_ProjectionRecurringOnly ==
    Answered =>
        /\ SentCards.expectedIncome =
              NumAdd(SentCards.ytd,
                     Num(TotalOverMonths(recurring_sales, NowMonth + 1, FiscalMarch)))
        /\ SentCards.expectedIncome =
              Num(OneoffTotal(NotAfterToday(oneoff_sales), FiscalStart, EndOfTime)
                  + TotalOverMonths(recurring_sales, FiscalApril, FiscalMarch))
        /\ SentCards.expectedIncome.v >= SentCards.ytd.v

C15_Witness ==
    /\ Answered
    /\ Today = [y |-> 2024, m |-> 6, d |-> 15]
    /\ oneoff_sales = <<OneoffWithId(OneoffPool[3], 1), OneoffWithId(OneoffPool[14], 2)>>
    /\ recurring_sales = <<WithId(RecurringPool[1], 1), WithId(RecurringPool[7], 2)>>
    /\ SentCards.ytd = Num(318)
    /\ SentCards.expectedIncome = Num(1218)

----------------------------------------------------------------------------
RECURSIVE DraftTotal(_)
DraftTotal(table) ==
    IF Len(table) = 0 THEN 0
    ELSE (IF IsDraft(table[1]) THEN FullAmount(table[1]) ELSE 0) + DraftTotal(Tail(table))

(* C16: draftsTotal is the sum of the effective amounts of all one-off     *)
(* sales whose status is draft, whatever their sale_date (none, before the *)
(* fiscal year, in the future); sales of any other status add nothing.     *)
C16_DraftsTotal ==
    /\ pc \in {"recurring", "activeClients", "openTasks"}
          => ToNumber(loc.draftsTotal.total) = Num(DraftTotal(oneoff_sales))
    /\ Answered => SentCards.draftsTotal = Num(DraftTotal(oneoff_sales))

C16_Witness ==
    /\ Answered
    /\ Today = [y |-> 2024, m |-> 6, d |-> 15]
    /\ oneoff_sales = <<OneoffWithId(OneoffPool[6], 1), OneoffWithId(OneoffPool[8], 2)>>
    /\ oneoff_sales[1].sale_date = SqlNull
    /\ oneoff_sales[2].sale_date = SqlDate(2025, 12, 31)
    /\ SentCards.draftsTotal = Num(12)

----------------------------------------------------------------------------
(* The handler over varied clients.                                        *)

MaxClientRows == 2   \* rows in clients

ClientStatusPool ==
    << SqlNull,
       SqlText(<<>>),
       SqlText(<<" ">>),
       SqlText(Active),
       SqlText(<<"l", "e", "a", "d">>),
       SqlText(<<"I", "n", "a", "c", "t", "i", "v", "e">>),
       SqlText(<<"A", "r", "c", "h", "i", "v", "e", "d">>),
       SqlText(<<"A", "R", "C", "H", "I", "V", "E", "D">>),
       SqlText(<<"a", "r", "c", "h", "i", "v", "e", "d", " ">>),
       SqlText(<<" ", "c", "l", "o", "s", "e", "d", " ">>),
       SqlText(<<"c", "l", "o", " ", "s", "e", "d">>) >>

(* tables of up to MaxClientRows rows, ids by position *)
ClientTables ==
    { [i \in 1..Len(ix) |-> [id |-> SqlInt(i), status |-> ClientStatusPool[ix[i]]]] :
        ix \in { f \in UNION { [1..n -> 1..Len(ClientStatusPool)] : n \in 0..MaxClientRows } :
                   \A i \in 1..(Len(f) - 1) : f[i] <= f[i + 1] } }

InitClients ==
    /\ call = Idle
    /\ pool = [created |-> FALSE, built |-> 0, inUse |-> 0]
    /\ now = JsNull
    /\ recurring_sales = <<WithId(RecurringPool[1], 1)>>
    /\ oneoff_sales = <<>>
    /\ clients \in ClientTables
    /\ tasks = TasksTable
    /\ pc = "idle"
    /\ method = "GET"
    /\ conn = "none"
    /\ releases = 0
    /\ loc = NoLocals
    /\ res = <<>>
    /\ reqs = <<>>
    /\ sale = NoSale
    /\ projects = <<>>

SpecClients == InitClients /\ [][Next]_vars

(* the count, stated on the stored rows *)
UpperInactive == <<"I", "N", "A", "C", "T", "I", "V", "E">>
UpperArchived == <<"A", "R", "C", "H", "I", "V", "E", "D">>
UpperClosed   == <<"C", "L", "O", "S", "E", "D">>
AllSpaces(s) == \A i \in 1..Len(s) : s[i] = " "
(* s is the word, in any casing, between leading and trailing spaces *)
TrimmedIs(s, lower, upper) ==
    \E i \in 1..(Len(s) + 1) : \E j \in 0..Len(s) :
        /\ AllSpaces(SubSeq(s, 1, i - 1))
        /\ AnyCasing(SubSeq(s, i, j), lower, upper)
        /\ AllSpaces(SubSeq(s, j + 1, Len(s)))
NotCounted(r) ==
    /\ r.status.t = "text"
    /\ \/ TrimmedIs(r.status.s, Inactive, UpperInactive)
       \/ TrimmedIs(r.status.s, Archived, UpperArchived)
       \/ TrimmedIs(r.status.s, Closed, UpperClosed)
ActiveCount(table) == Len(SelectSeq(table, LAMBDA r : ~NotCounted(r)))

(* C17: activeClients counts exactly the clients whose status, trimmed and *)
(* lower-cased, is none of inactive, archived, closed; a client with no    *)
(* status or an empty one counts as active, and "Archived" in any casing   *)
(* is not counted.                                                         *)
C17_ActiveClients ==
    /\ pc = "openTasks" => loc.activeClients.c = ActiveCount(clients)
    /\ Answered => SentCards.activeClients = ActiveCount(clients)
    /\ \A i \in 1..Len(clients) :
          /\ clients[i].status \in {SqlNull, SqlText(<<>>)} => ~NotCounted(clients[i])
          /\ ( clients[i].status.t = "text"
               /\ AnyCasing(clients[i].status.s, Archived, UpperArchived) )
                => NotCounted(clients[i])

C17_Witness ==
    /\ Answered
    /\ clients = << [id |-> SqlInt(1), status |-> SqlNull],
                    [id |-> SqlInt(2), status |-> SqlText(<<"A", "r", "c", "h", "i", "v", "e", "d">>)] >>
    /\ SentCards.activeClients = 1

----------------------------------------------------------------------------
CardNames ==
    {"expectedIncome", "ytd", "monthlyIncome", "gstThisMonth", "draftsTotal",
     "activeClients", "openTasks"}

(* C18: every successful dashboard response carries all seven fields       *)
(* expectedIncome, ytd, monthlyIncome, gstThisMonth, draftsTotal,          *)
(* activeClients and openTasks, and its gstThisMonth is 15 hundredths of   *)
(* its monthlyIncome.                                                      *)
C18_SevenFields ==
    \A i \in 1..Len(res) :
        (res[i].status = 200 /\ res[i].body.kind = "cards") =>
            /\ res[i].body.ok = TRUE
            /\ DOMAIN res[i].body.cards = CardNames
            /\ res[i].body.cards.monthlyIncome.k = "fin"
            /\ res[i].body.cards.gstThisMonth.k = "ratio"
            /\ res[i].body.cards.gstThisMonth.n * 100 =
                  15 * res[i].body.cards.monthlyIncome.v * res[i].body.cards.gstThisMonth.d

C18_Witness ==
    /\ Answered
    /\ Today = [y |-> 2024, m |-> 6, d |-> 15]
    /\ SentCards.monthlyIncome = Num(140)
    /\ SentCards.gstThisMonth = [k |-> "ratio", n |-> 2100, d |-> 100]
    /\ SentCards.activeClients = 2
    /\ SentCards.openTasks = 1

----------------------------------------------------------------------------
(* a GET request that has ended without its cards: a storage step failed *)
EndedInFailure ==
    \/ pc = "rejected"
    \/ pc = "done" /\ method = "GET" /\ ~Answered

OneErrorResponse ==
    /\ Len(res) = 1
    /\ res[1].status = 500
    /\ res[1].body.kind = "error"
    /\ res[1].body.ok = FALSE
    /\ res[1].body.error = "Internal Server Error"
    /\ "cards" \notin DOMAIN res[1].body

(* C19: whenever a storage step fails, be it obtaining the connection or   *)
(* any of the queries, the caller receives exactly one response, an error  *)
(* response with an error indicator and a message and without any of the   *)
(* dashboard fields.                                                       *)
C19_FailureGivesOneErrorResponse == EndedInFailure => OneErrorResponse

(* what holds: a failed query, at any of the six positions, is answered by *)
(* exactly one error response and the connection is released once          *)
C19_FailedQueryAnswered ==
    (pc = "done" /\ method = "GET" /\ ~Answered) =>
        OneErrorResponse /\ releases = 1 /\ conn = "released"

----------------------------------------------------------------------------
(* Several dashboard requests served together by one instance: each runs   *)
(* the handler on its own locals and its own connection, over the shared   *)
(* pool and the shared tables; "now" is the date of the day.               *)

MaxRequests == 2   \* dashboard requests in flight together

RequestIds == 1..MaxRequests

NewRequest ==
    [pc |-> "idle", now |-> JsNull, conn |-> "none", releases |-> 0,
     loc |-> NoLocals, res |-> <<>>]

InitConc ==
    /\ call = Idle
    /\ pool = [created |-> FALSE, built |-> 0, inUse |-> 0]
    /\ now \in NowDates
    /\ recurring_sales \in OneoffRecurring
    /\ oneoff_sales = CHOOSE t \in OneoffTables : Len(t) = 3
    /\ clients = ClientsTable
    /\ tasks = TasksTable
    /\ pc = "idle"
    /\ method = "GET"
    /\ conn = "none"
    /\ releases = 0
    /\ loc = NoLocals
    /\ res = <<>>
    /\ reqs = [i \in RequestIds |-> NewRequest]
    /\ sale = NoSale
    /\ projects = <<>>

OneRequestUnchanged ==
    UNCHANGED <<call, now, pc, method, conn, releases, loc, res, sale, projects>>

(* const pool = getPool(); pool.getConnection() is called *)
ConcRequestGet(i) ==
    /\ reqs[i].pc = "idle"
    /\ pool' = getPool(pool)
    /\ reqs' = [reqs EXCEPT ![i].pc = "getConnection"]
    /\ OneRequestUnchanged
    /\ TablesUnchanged

(* the connection is granted; const now = new Date() ... eMonth *)
ConcGetConnection(i) ==
    /\ reqs[i].pc = "getConnection"
    /\ pool.inUse < connectionLimit
    /\ pool' = [pool EXCEPT !.inUse = @ + 1]
    /\ reqs' = [reqs EXCEPT ![i] =
                  [@ EXCEPT !.conn = "held", !.now = now, !.pc = "oneoffYTD",
                            !.loc = [NoLocals EXCEPT !.today = ymd(now),
                                                     !.fyStart = fyStartFor(now),
                                                     !.sMonth = firstOfMonth(now),
                                                     !.eMonth = lastOfMonth(now)]]]
    /\ OneRequestUnchanged
    /\ TablesUnchanged

(* pool.getConnection() rejects, outside the try *)
ConcGetConnectionFails(i) ==
    /\ reqs[i].pc = "getConnection"
    /\ reqs' = [reqs EXCEPT ![i].pc = "rejected"]
    /\ UNCHANGED pool
    /\ OneRequestUnchanged
    /\ TablesUnchanged

(* the request after its awaited query has answered, lines 51-109 *)
AfterQuery(r) ==
    CASE r.pc = "oneoffYTD" ->
            [r EXCEPT !.pc = "oneoffThisMonth",
                      !.loc.oneoffYTD =
                          SelectOneoffBetween(oneoff_sales, ymd(r.loc.fyStart), r.loc.today)]
      [] r.pc = "oneoffThisMonth" ->
            [r EXCEPT !.pc = "draftsTotal",
                      !.loc.oneoffThisMonth =
                          SelectOneoffBetween(oneoff_sales, ymd(r.loc.sMonth), ymd(r.loc.eMonth))]
      [] r.pc = "draftsTotal" ->
            [r EXCEPT !.pc = "recurring",
                      !.loc.draftsTotal = SelectDrafts(oneoff_sales)]
      [] r.pc = "recurring" ->
            LET recurring == SelectRecurring(recurring_sales)
            IN  [r EXCEPT !.pc = "activeClients",
                          !.loc.fetched = TRUE,
                          !.loc.recurring = recurring,
                          !.loc.recurringYTD =
                              ytdLoop(firstOfMonth(r.loc.fyStart), r.loc.eMonth,
                                      recurring, Num(0)),
                          !.loc.recurringMonth = sumRecurringForMonth(recurring, r.now)]
      [] r.pc = "activeClients" ->
            [r EXCEPT !.pc = "openTasks",
                      !.loc.activeClients = SelectActiveClients(clients)]

(* one awaited query of request i answers; the last one sends the cards    *)
(* and releases the connection                                             *)
ConcQuery(i) ==
    /\ reqs[i].pc \in QueryPcs
    /\ IF reqs[i].pc = "openTasks"
       THEN /\ reqs' = [reqs EXCEPT ![i] =
                          [@ EXCEPT !.pc = "done", !.conn = "released",
                                    !.releases = @ + 1, !.loc = NoLocals,
                                    !.res = Append(@, Respond(200,
                                        [kind |-> "cards", ok |-> TRUE,
                                         cards |-> Cards(reqs[i].loc, reqs[i].now,
                                                         SelectOpenTasks(tasks))]))]]
            /\ pool' = [pool EXCEPT !.inUse = @ - 1]
       ELSE /\ reqs' = [reqs EXCEPT ![i] = AfterQuery(reqs[i])]
            /\ UNCHANGED pool
    /\ OneRequestUnchanged
    /\ TablesUnchanged

(* mutant: the 500 is sent and the connection is kept *)
ConcQueryFails_connectionKept(i) ==
    /\ reqs[i].pc \in QueryPcs
    /\ reqs' = [reqs EXCEPT ![i] =
                  [@ EXCEPT !.pc = "done", !.loc = NoLocals,
                            !.res = Append(@, Respond(500,
                                [kind |-> "error", ok |-> FALSE,
                                 error |-> "Internal Server Error"]))]]
    /\ UNCHANGED pool
    /\ OneRequestUnchanged
    /\ TablesUnchanged

(* an awaited query of request i rejects: catch, then finally *)
ConcQueryFails(i) ==
    /\ reqs[i].pc \in QueryPcs
    /\ reqs' = [reqs EXCEPT ![i] =
                  [@ EXCEPT !.pc = "done", !.conn = "released",
                            !.releases = @ + 1, !.loc = NoLocals,
                            !.res = Append(@, Respond(500,
                                [kind |-> "error", ok |-> FALSE,
                                 error |-> "Internal Server Error"]))]]
    /\ pool' = [pool EXCEPT !.inUse = @ - 1]
    /\ OneRequestUnchanged
    /\ TablesUnchanged

NextConc ==
    \E i \in DOMAIN reqs :
        \/ ConcRequestGet(i)
        \/ ConcGetConnection(i)
        \/ ConcGetConnectionFails(i)
        \/ ConcQuery(i)
        \/ ConcQueryFails(i)

SpecConc == InitConc /\ [][NextConc]_vars

----------------------------------------------------------------------------
(* what one dashboard request alone answers on the day of "now", stated on *)
(* the stored rows                                                         *)
Tables == <<recurring_sales, oneoff_sales, clients, tasks>>

UpperOpen == <<"O", "P", "E", "N">>
OpenCount(table) ==
    Len(SelectSeq(table, LAMBDA r :
        r.status.t = "text" /\ AnyCasing(r.status.s, Open, UpperOpen)))

SingleAnswer ==
    LET oneoffYtd   == OneoffTotal(oneoff_sales, FiscalStart, Today)
        oneoffMonth == OneoffTotal(oneoff_sales, MonthBegin, MonthEnd)
        month       == oneoffMonth + MonthTotal(recurring_sales, NowMonth)
    IN  [expectedIncome |-> Num(oneoffYtd
                                + TotalOverMonths(recurring_sales, FiscalApril, FiscalMarch)),
         ytd            |-> Num(oneoffYtd
                                + TotalOverMonths(recurring_sales, FiscalApril, NowMonth)),
         monthlyIncome  |-> Num(month),
         gstThisMonth   |-> [k |-> "ratio", n |-> 15 * month, d |-> 100],
         draftsTotal    |-> Num(DraftTotal(oneoff_sales)),
         activeClients  |-> ActiveCount(clients),
         openTasks      |-> OpenCount(tasks)]

AnsweredAt(i) ==
    /\ reqs[i].pc = "done"
    /\ Len(reqs[i].res) = 1
    /\ reqs[i].res[1].status = 200

(* C20: a dashboard request only reads: no step of any execution, ended in *)
(* cards or in an error, changes oneoff_sales, recurring_sales, clients or *)
(* tasks, and each of the dashboard requests served together over the      *)
(* unchanged tables answers what a single request would answer.            *)
C20_ReadOnly ==
    /\ [][Tables' = Tables]_vars
    /\ [](\A i \in RequestIds :
            AnsweredAt(i) => reqs[i].res[1].body.cards = SingleAnswer)

C20_Witness ==
    /\ \A i \in RequestIds : AnsweredAt(i)
    /\ Today = [y |-> 2024, m |-> 6, d |-> 15]
    /\ Len(oneoff_sales) = 3
    /\ recurring_sales = <<WithId(RecurringPool[1], 1), WithId(RecurringPool[7], 2)>>
    /\ reqs[1].res[1].body.cards.ytd = Num(358)
    /\ reqs[2].res[1].body.cards = reqs[1].res[1].body.cards
    /\ pool = [created |-> TRUE, built |-> 1, inUse |-> 0]

----------------------------------------------------------------------------
(* api/oneoff-sales/index.js and api/recurring-sales/index.js: POST, PUT   *)
(* and DELETE. The two handlers differ in the table, the column list of    *)
(* the INSERT and the allow-list of the PUT. A request body is a function  *)
(* from its keys to JSON values; created_at is left out of the rows.       *)

SalesTables == {"oneoff_sales", "recurring_sales"}

OneoffColumns ==
    {"id", "client_id", "description", "amount", "status", "quantity",
     "unit_amount", "notes", "sale_date"}
RecurringColumns ==
    {"id", "client_id", "product", "service_name", "amount", "description",
     "quantity", "unit_amount", "start_date", "end_date", "notes", "active",
     "billing_cycle"}

(* mutant: client_id let through *)
allowedFields_withClient(table) ==
    IF table = "oneoff_sales"
    THEN {"client_id", "description", "amount", "sale_date", "status", "quantity",
          "unit_amount", "notes"}
    ELSE {"client_id", "description", "service_name", "amount", "start_date", "end_date",
          "product", "quantity", "unit_amount", "notes"}

(* const allowedFields = [...] *)
allowedFields(table) ==
    IF table = "oneoff_sales"
    THEN {"description", "amount", "sale_date", "status", "quantity", "unit_amount", "notes"}
    ELSE {"description", "service_name", "amount", "start_date", "end_date", "product",
          "quantity", "unit_amount", "notes"}

(* the value a column takes from a bound parameter *)
ColumnKind(col) ==
    CASE col \in {"amount", "unit_amount"}                  -> "decimal"
      [] col \in {"id", "client_id", "quantity", "active"}  -> "int"
      [] col \in {"sale_date", "start_date", "end_date"}    -> "date"
      [] OTHER                                              -> "text"

ToColumn(col, v) ==
    IF v = JsNull THEN SqlNull
    ELSE CASE ColumnKind(col) = "decimal" -> SqlDec(ToNumber(v).v)
           [] ColumnKind(col) = "int"     -> SqlInt(ToNumber(v).v)
           [] ColumnKind(col) = "date"    ->
                 LET c == SqlParseDate(v.s) IN SqlDate(c.y, c.m, c.d)
           [] OTHER                       -> SqlText(JsString(v))

Has(body, k) == k \in DOMAIN body
(* a ?? b on a key of the body *)
Nullish(body, k, default) ==
    IF Has(body, k) /\ body[k] # JsNull THEN body[k] ELSE default
(* const { k = default } = body *)
Defaulted(body, k, default) == IF Has(body, k) THEN body[k] ELSE default
(* a key of the body as a bound parameter: undefined is sent as NULL *)
Param(body, k) == IF Has(body, k) THEN body[k] ELSE JsNull

Draft_js == JsStr(Draft)
EmptyString == JsStr(<<>>)

(* the row of INSERT INTO oneoff_sales ..., lines 29-39; the columns the   *)
(* statement does not name take NULL                                       *)
OneoffInsert(id, body) ==
    [id          |-> SqlInt(id),
     client_id   |-> ToColumn("client_id", Param(body, "client_id")),
     description |-> ToColumn("description", Nullish(body, "description", EmptyString)),
     amount      |-> ToColumn("amount", Nullish(body, "amount", JsNum(0))),
     status      |-> ToColumn("status", Defaulted(body, "status", Draft_js)),
     quantity    |-> ToColumn("quantity", Defaulted(body, "quantity", JsNum(1))),
     unit_amount |-> ToColumn("unit_amount", Defaulted(body, "unit_amount", JsNum(0))),
     notes       |-> ToColumn("notes", Nullish(body, "notes", JsNull)),
     sale_date   |-> ToColumn("sale_date", Nullish(body, "sale_date", JsNull))]

(* the row of INSERT INTO recurring_sales ..., lines 29-39 *)
RecurringInsert(id, body) ==
    [id            |-> SqlInt(id),
     client_id     |-> ToColumn("client_id", Param(body, "client_id")),
     product       |-> ToColumn("product", Nullish(body, "product", EmptyString)),
     service_name  |-> ToColumn("service_name", Nullish(body, "service_name", EmptyString)),
     amount        |-> ToColumn("amount", Nullish(body, "amount", JsNum(0))),
     description   |-> ToColumn("description", Nullish(body, "description", EmptyString)),
     quantity      |-> ToColumn("quantity", Nullish(body, "quantity", JsNum(1))),
     unit_amount   |-> ToColumn("unit_amount", Nullish(body, "unit_amount", JsNum(0))),
     start_date    |-> ToColumn("start_date", Nullish(body, "start_date", JsNull)),
     end_date      |-> ToColumn("end_date", Nullish(body, "end_date", JsNull)),
     notes         |-> ToColumn("notes", Nullish(body, "notes", JsNull)),
     active        |-> SqlNull,
     billing_cycle |-> SqlNull]

(* updateData: the allow-listed keys of the body, '' and null as null *)
updateData(table, body) ==
    [k \in (DOMAIN body \cap allowedFields(table)) |->
        IF body[k] = EmptyString \/ body[k] = JsNull THEN JsNull ELSE body[k]]

(* UPDATE <table> SET k = ?, ... WHERE id = ? *)
IdMatches(row, id) == id.t = "number" /\ row.id = SqlInt(id.n.v)
UpdatedRow(row, data) ==
    [f \in DOMAIN row |-> IF f \in DOMAIN data THEN ToColumn(f, data[f]) ELSE row[f]]
SqlUpdate(rows, data, id) ==
    [i \in 1..Len(rows) |->
        IF IdMatches(rows[i], id) THEN UpdatedRow(rows[i], data) ELSE rows[i]]
(* mutant: every row counted as affected *)
affectedRows_everyRow(rows, id) == Len(rows)
affectedRows(rows, id) == Len(SelectSeq(rows, LAMBDA r : IdMatches(r, id)))
SelectById(rows, id) ==
    LET found == SelectSeq(rows, LAMBDA r : IdMatches(r, id))
    IN  [i \in 1..Len(found) |-> RowFromDriver(found[i])]
SqlDelete(rows, id) == SelectSeq(rows, LAMBDA r : ~IdMatches(r, id))

TableOf(table) == IF table = "oneoff_sales" THEN oneoff_sales ELSE recurring_sales
(* the statement writes one sales table and nothing else *)
WriteTable(table, rows) ==
    /\ IF table = "oneoff_sales"
       THEN oneoff_sales' = rows /\ UNCHANGED recurring_sales
       ELSE recurring_sales' = rows /\ UNCHANGED oneoff_sales
    /\ UNCHANGED <<clients, tasks>>

DashboardUnchanged ==
    UNCHANGED <<call, now, pc, method, conn, releases, loc, res, reqs, projects>>

SaleAnswer(status, body) == Append(sale.res, Respond(status, body))

(* a POST, PUT or DELETE arrives: const db = getPool() *)
SaleRequest(Requests) ==
    /\ sale.pc = "idle"
    /\ \E rq \in Requests :
          sale' = [sale EXCEPT !.pc = "handler", !.table = rq.table,
                               !.method = rq.method, !.body = rq.body]
    /\ pool' = getPool(pool)
    /\ DashboardUnchanged
    /\ TablesUnchanged

(* POST: the INSERT, then 201 *)
SalePost ==
    /\ sale.pc = "handler"
    /\ sale.method = "POST"
    /\ LET id  == sale.autoInc[sale.table]
           row == IF sale.table = "oneoff_sales" THEN OneoffInsert(id, sale.body)
                  ELSE RecurringInsert(id, sale.body)
       IN  /\ WriteTable(sale.table, Append(TableOf(sale.table), row))
           /\ sale' = [sale EXCEPT !.pc = "done",
                                   !.autoInc[sale.table] = id + 1,
                                   !.res = SaleAnswer(201, [kind |-> "message"])]
    /\ UNCHANGED pool
    /\ DashboardUnchanged

(* PUT, lines 44-73: no id, or no allow-listed key, is answered 400 *)
SalePutRejected ==
    /\ sale.pc = "handler"
    /\ sale.method = "PUT"
    /\ \/ /\ ~Truthy(Param(sale.body, "id"))
          /\ sale' = [sale EXCEPT !.pc = "done",
                         !.res = SaleAnswer(400, [kind |-> "error",
                                                  error |-> "ID required in body"])]
       \/ /\ Truthy(Param(sale.body, "id"))
          /\ DOMAIN updateData(sale.table, sale.body) = {}
          /\ sale' = [sale EXCEPT !.pc = "done",
                         !.res = SaleAnswer(400, [kind |-> "error",
                                                  error |-> "No valid fields to update"])]
    /\ UNCHANGED pool
    /\ DashboardUnchanged
    /\ TablesUnchanged

(* PUT, lines 74-83: the UPDATE; affectedRows === 0 is answered 404 *)
SalePutExecute ==
    /\ sale.pc = "handler"
    /\ sale.method = "PUT"
    /\ Truthy(Param(sale.body, "id"))
    /\ DOMAIN updateData(sale.table, sale.body) # {}
    /\ LET rows == TableOf(sale.table)
           id   == sale.body["id"]
       IN  /\ WriteTable(sale.table,
                         SqlUpdate(rows, updateData(sale.table, sale.body), id))
           /\ sale' = IF affectedRows(rows, id) = 0
                      THEN [sale EXCEPT !.pc = "done",
                               !.res = SaleAnswer(404, [kind |-> "error",
                                                        error |-> "Record not found"])]
                      ELSE [sale EXCEPT !.pc = "select"]
    /\ UNCHANGED pool
    /\ DashboardUnchanged

(* PUT, lines 86-87: SELECT * ... WHERE id = ?, then 200 with rows[0] *)
SalePutSelect ==
    /\ sale.pc = "select"
    /\ LET rows == SelectById(TableOf(sale.table), sale.body["id"])
       IN  sale' = [sale EXCEPT !.pc = "done",
                       !.res = SaleAnswer(200,
                                  IF Len(rows) = 0 THEN [kind |-> "undefined"]
                                  ELSE [kind |-> "row", row |-> rows[1]])]
    /\ UNCHANGED pool
    /\ DashboardUnchanged
    /\ TablesUnchanged

(* DELETE: DELETE FROM <table> WHERE id=?, then 200 *)
SaleDelete ==
    /\ sale.pc = "handler"
    /\ sale.method = "DELETE"
    /\ WriteTable(sale.table, SqlDelete(TableOf(sale.table), Param(sale.body, "id")))
    /\ sale' = [sale EXCEPT !.pc = "done", !.res = SaleAnswer(200, [kind |-> "message"])]
    /\ UNCHANGED pool
    /\ DashboardUnchanged

(* a statement rejects: catch answers 500 *)
SaleFails ==
    /\ sale.pc \in {"handler", "select"}
    /\ sale.pc = "handler" => sale.method \in {"POST", "DELETE"} \/
                              ( /\ Truthy(Param(sale.body, "id"))
                                /\ DOMAIN updateData(sale.table, sale.body) # {} )
    /\ sale' = [sale EXCEPT !.pc = "done",
                   !.res = SaleAnswer(500, [kind |-> "error",
                                            error |-> "Internal Server Error"])]
    /\ UNCHANGED pool
    /\ DashboardUnchanged
    /\ TablesUnchanged

SaleSteps ==
    \/ SalePost
    \/ SalePutRejected
    \/ SalePutExecute
    \/ SalePutSelect
    \/ SaleDelete
    \/ SaleFails

----------------------------------------------------------------------------
(* One dashboard request on a given day, with requests to the sales        *)
(* handlers served beside it: every statement is its own transaction, so   *)
(* a write may commit between any two awaited queries of the dashboard.    *)

MaxSaleRequests == 2   \* requests to the sales handlers in one run

(* the same instance takes the next request to the sales handlers *)
SaleNext ==
    /\ sale.pc = "done"
    /\ sale.served + 1 < MaxSaleRequests
    /\ sale' = [sale EXCEPT !.pc = "idle", !.table = "", !.method = "",
                            !.body = <<>>, !.res = <<>>, !.served = @ + 1]
    /\ UNCHANGED pool
    /\ DashboardUnchanged
    /\ TablesUnchanged

Text(s) == JsStr(s)
LedgerRequests ==
    { [table |-> "oneoff_sales", method |-> "POST",
       body |-> [quantity |-> JsNum(2), unit_amount |-> JsNum(9)]],
      [table |-> "recurring_sales", method |-> "POST",
       body |-> [quantity |-> JsNum(2), unit_amount |-> JsNum(50)]],
      [table |-> "oneoff_sales", method |-> "PUT",
       body |-> [id |-> JsNum(1), status |-> Text(Draft)]],
      [table |-> "oneoff_sales", method |-> "PUT",
       body |-> [id |-> JsNum(1), status |-> Text(Sent)]],
      [table |-> "recurring_sales", method |-> "PUT",
       body |-> [id |-> JsNum(1), amount |-> JsNum(50)]],
      [table |-> "recurring_sales", method |-> "PUT",
       body |-> [id |-> JsNum(1)]],
      [table |-> "recurring_sales", method |-> "DELETE",
       body |-> [id |-> JsNum(1)]] }

LedgerDays == {NewDate(2024, 5, 15), NewDate(2025, 0, 31)}

LedgerOneoff ==
    << [id |-> SqlInt(1), client_id |-> SqlInt(1), description |-> SqlText(<<>>),
        amount |-> SqlDec(40), status |-> SqlText(Sent), quantity |-> SqlInt(1),
        unit_amount |-> SqlDec(0), notes |-> SqlNull,
        sale_date |-> SqlDate(2024, 6, 15)] >>

LedgerRecurring ==
    << [id |-> SqlInt(1), client_id |-> SqlInt(1), product |-> SqlText(<<>>),
        service_name |-> SqlText(<<>>), amount |-> SqlDec(100),
        description |-> SqlText(<<>>), quantity |-> SqlInt(1),
        unit_amount |-> SqlDec(0), start_date |-> SqlDate(2024, 1, 1),
        end_date |-> SqlNull, notes |-> SqlNull, active |-> SqlNull,
        billing_cycle |-> SqlNull] >>

InitLedger ==
    /\ call = Idle
    /\ pool = [created |-> FALSE, built |-> 0, inUse |-> 0]
    /\ now \in LedgerDays
    /\ recurring_sales = LedgerRecurring
    /\ oneoff_sales = LedgerOneoff
    /\ clients = ClientsTable
    /\ tasks = TasksTable
    /\ pc = "idle"
    /\ method = "GET"
    /\ conn = "none"
    /\ releases = 0
    /\ loc = NoLocals
    /\ res = <<>>
    /\ reqs = [i \in {1} |-> NewRequest]
    /\ sale = [NoSale EXCEPT !.autoInc = [oneoff_sales |-> 2, recurring_sales |-> 2]]
    /\ projects = <<>>

NextLedger ==
    \/ NextConc
    \/ SaleRequest(LedgerRequests)
    \/ SaleSteps
    \/ SaleNext

SpecLedger == InitLedger /\ [][NextLedger]_vars

----------------------------------------------------------------------------
(* The tables of recurring records the ledger's writers can leave: the     *)
(* record of the start as it was or with its amount changed, and records   *)
(* inserted with quantity 2 and unit amount 50.                            *)
C21_Inserted(id) ==
    [id |-> SqlInt(id), client_id |-> SqlNull, product |-> SqlText(<<>>),
     service_name |-> SqlText(<<>>), amount |-> SqlDec(0),
     description |-> SqlText(<<>>), quantity |-> SqlInt(2),
     unit_amount |-> SqlDec(50), start_date |-> SqlNull, end_date |-> SqlNull,
     notes |-> SqlNull, active |-> SqlNull, billing_cycle |-> SqlNull]
C21_Rows ==
    {LedgerRecurring[1], [LedgerRecurring[1] EXCEPT !.amount = SqlDec(50)]}
        \cup {C21_Inserted(id) : id \in 2..(MaxSaleRequests + 1)}
C21_Snapshots == UNION {[1..n -> C21_Rows] : n \in 0..(MaxSaleRequests + 1)}

C21_Sending(i) ==
    /\ reqs[i].pc = "openTasks" /\ reqs'[i].pc = "done"
    /\ Len(reqs'[i].res) = 1 /\ reqs'[i].res[1].status = 200

(* C21: the recurring records are fetched once per invocation, and the     *)
(* recurring part of ytd, the recurring part of monthlyIncome and the       *)
(* projection of the cards sent are the sums of one and the same table of  *)
(* records, the fetched one, whatever is written to recurring_sales        *)
(* between the fetch and the response.                                     *)
C21_OneSnapshot ==
    /\ [][\A i \in DOMAIN reqs :
            (reqs[i].loc.fetched /\ reqs'[i].pc # "done")
                => reqs'[i].loc.recurring = reqs[i].loc.recurring]_vars
    /\ [][\A i \in DOMAIN reqs :
            C21_Sending(i) =>
                LET l == reqs[i].loc
                    c == reqs'[i].res[1].body.cards
                IN  \E T \in C21_Snapshots :
                      /\ l.recurring = SelectRecurring(T)
                      /\ c.ytd = NumAdd(ToNumber(l.oneoffYTD.total),
                                        Num(TotalOverMonths(T, FiscalApril, NowMonth)))
                      /\ c.monthlyIncome = NumAdd(ToNumber(l.oneoffThisMonth.total),
                                                  Num(MonthTotal(T, NowMonth)))
                      /\ c.expectedIncome =
                            NumAdd(c.ytd,
                                   Num(TotalOverMonths(T, NowMonth + 1, FiscalMarch)))]_vars

(* the record was deleted after the fetch: the cards still carry its       *)
(* three months to date, its month and its nine months to come             *)
C21_Witness ==
    /\ AnsweredAt(1)
    /\ Today = [y |-> 2024, m |-> 6, d |-> 15]
    /\ recurring_sales = <<>>
    /\ oneoff_sales = LedgerOneoff
    /\ reqs[1].res[1].body.cards.ytd = Num(340)
    /\ reqs[1].res[1].body.cards.monthlyIncome = Num(140)
    /\ reqs[1].res[1].body.cards.expectedIncome = Num(1240)

----------------------------------------------------------------------------
(* One PUT to a sales handler: the bodies name an id or none, allow-listed *)
(* keys with values, '' or null, and keys outside the allow-list.          *)

Absent == [t |-> "absent"]
Field(k, v) == IF v = Absent THEN << >> ELSE (k :> v)

PutIds == {Absent, JsNum(0), JsNum(1), JsNum(2), JsNum(3)}
PutBodies ==
    { Field("id", i) @@ Field("amount", a) @@ Field("notes", n) @@ Field("status", s)
        @@ Field("start_date", d) @@ Field("client_id", c) @@ Field("active", x) :
        i \in PutIds,
        a \in {Absent, JsNum(7), EmptyString},
        n \in {Absent, Text(<<"x">>), JsNull},
        s \in {Absent, Text(Paid)},
        d \in {Absent, Text(<<"2", "0", "2", "4", "-", "0", "7", "-", "0", "1">>), EmptyString},
        c \in {Absent, JsNum(9)},
        x \in {Absent, JsNum(0)} }
PutRequests ==
    { [table |-> t, method |-> "PUT", body |-> b] : t \in SalesTables, b \in PutBodies }

PutOneoff ==
    << LedgerOneoff[1],
       [LedgerOneoff[1] EXCEPT !.id = SqlInt(2), !.client_id = SqlInt(2),
                               !.status = SqlText(Draft), !.amount = SqlDec(0),
                               !.quantity = SqlInt(2), !.unit_amount = SqlDec(9),
                               !.notes = SqlText(<<"n">>)] >>
PutRecurring ==
    << LedgerRecurring[1],
       [LedgerRecurring[1] EXCEPT !.id = SqlInt(2), !.client_id = SqlInt(2),
                                  !.amount = SqlDec(80), !.active = SqlInt(1),
                                  !.billing_cycle = SqlText(<<"m", "o", "n", "t", "h", "l", "y">>),
                                  !.end_date = SqlDate(2025, 3, 31)] >>

InitPut ==
    /\ call = Idle
    /\ pool = [created |-> FALSE, built |-> 0, inUse |-> 0]
    /\ now \in LedgerDays
    /\ recurring_sales = PutRecurring
    /\ oneoff_sales = PutOneoff
    /\ clients = ClientsTable
    /\ tasks = TasksTable
    /\ pc = "idle"
    /\ method = "GET"
    /\ conn = "none"
    /\ releases = 0
    /\ loc = NoLocals
    /\ res = <<>>
    /\ reqs = [i \in {1} |-> NewRequest]
    /\ sale = [NoSale EXCEPT !.autoInc = [oneoff_sales |-> 3, recurring_sales |-> 3]]
    /\ projects = <<>>

NextPut ==
    \/ SaleRequest(PutRequests)
    \/ SalePutRejected
    \/ SalePutExecute
    \/ SalePutSelect
    \/ SaleFails

SpecPut == InitPut /\ [][NextPut]_vars

----------------------------------------------------------------------------
(* what a PUT may change, stated on the stored rows *)
C22_Listed(table) ==
    IF table = "oneoff_sales"
    THEN {"description", "amount", "sale_date", "status", "quantity", "unit_amount", "notes"}
    ELSE {"description", "service_name", "amount", "start_date", "end_date", "product",
          "quantity", "unit_amount", "notes"}
C22_Stored(col, v) ==
    CASE v = JsNull \/ v = JsStr(<<>>)            -> SqlNull
      [] col \in {"amount", "unit_amount"}       -> SqlDec(v.n.v)
      [] col = "quantity"                        -> SqlInt(v.n.v)
      [] col \in {"sale_date", "start_date", "end_date"} ->
            SqlDate(ParseDigits(SubSeq(v.s, 1, 4)), ParseDigits(SubSeq(v.s, 6, 7)),
                    ParseDigits(SubSeq(v.s, 9, 10)))
      [] OTHER                                   -> SqlText(v.s)
C22_Named(row) ==
    /\ "id" \in DOMAIN sale.body
    /\ sale.body["id"].t = "number"
    /\ row.id = SqlInt(sale.body["id"].n.v)
C22_Sent == (DOMAIN sale.body) \cap C22_Listed(sale.table)
C22_RowNow ==
    LET rows == IF sale.table = "oneoff_sales" THEN oneoff_sales ELSE recurring_sales
    IN  rows[CHOOSE j \in 1..Len(rows) : C22_Named(rows[j])]

(* C22: a PUT changes, on the record with the given id, only the           *)
(* allow-listed fields present in the body, each to the value sent ('' as  *)
(* NULL); every other field of that record (id, client_id, active,         *)
(* billing_cycle, keys outside the allow-list) and every other record of   *)
(* both tables keep their values.                                          *)
C22_PutFrame ==
    /\ [][\A t \in SalesTables :
            LET old == IF t = "oneoff_sales" THEN oneoff_sales ELSE recurring_sales
                new == IF t = "oneoff_sales" THEN oneoff_sales' ELSE recurring_sales'
            IN  /\ Len(new) = Len(old)
                /\ \A j \in 1..Len(old) : \A f \in DOMAIN old[j] :
                      new[j][f] # old[j][f] =>
                          /\ sale.method = "PUT" /\ t = sale.table
                          /\ C22_Named(old[j])
                          /\ f \in C22_Sent
                          /\ new[j][f] = C22_Stored(f, sale.body[f])]_vars
    /\ []( ( sale.pc = "done" /\ sale.method = "PUT" /\ sale.res[1].status = 200 )
             => \A f \in C22_Sent : C22_RowNow[f] = C22_Stored(f, sale.body[f]) )

C22_Witness ==
    /\ sale.pc = "done" /\ sale.method = "PUT" /\ sale.table = "oneoff_sales"
    /\ sale.res[1].status = 200
    /\ DOMAIN sale.body = {"id", "amount", "status", "start_date", "client_id", "active"}
    /\ sale.body["id"] = JsNum(2) /\ sale.body["amount"] = JsStr(<<>>)
    /\ oneoff_sales[2].amount = SqlNull
    /\ oneoff_sales[2].status = SqlText(Paid)
    /\ oneoff_sales[2].client_id = SqlInt(2)
    /\ oneoff_sales[2].notes = SqlText(<<"n">>)
    /\ oneoff_sales[1] = PutOneoff[1]
    /\ recurring_sales = PutRecurring

(* C25: a PUT without an id, or naming none of the allow-listed fields, is *)
(* answered 400, and one whose id matches no record 404, each leaving      *)
(* every record as it was; a 200 answer is given only when a record was    *)
(* updated, and carries that record as it is stored after the update.      *)
C25_PutAnswers ==
    ( sale.pc = "done" /\ sale.method = "PUT" ) =>
        LET st     == sale.res[1].status
            noId   == "id" \notin DOMAIN sale.body \/ sale.body["id"] = JsNum(0)
            rows   == IF sale.table = "oneoff_sales" THEN PutOneoff ELSE PutRecurring
            exists == \E j \in 1..Len(rows) : C22_Named(rows[j])
            same   == oneoff_sales = PutOneoff /\ recurring_sales = PutRecurring
        IN  /\ noId => ( st = 400 /\ same )
            /\ ( ~noId /\ C22_Sent = {} ) => ( st = 400 /\ same )
            /\ ( ~noId /\ C22_Sent # {} /\ ~exists ) => ( st \in {404, 500} /\ same )
            /\ st \in {400, 404} => ( same /\ ( noId \/ C22_Sent = {} \/ ~exists ) )
            /\ st = 200 =>
                  /\ ~noId /\ C22_Sent # {} /\ exists
                  /\ sale.res[1].body.kind = "row"
                  /\ sale.res[1].body.row = RowFromDriver(C22_RowNow)
            /\ st # 200 => sale.res[1].body.kind = "error"

C25_Witness ==
    /\ sale.pc = "done" /\ sale.method = "PUT" /\ sale.table = "recurring_sales"
    /\ sale.res[1].status = 404
    /\ sale.body["id"] = JsNum(3)
    /\ "amount" \in DOMAIN sale.body /\ sale.body["amount"] = JsNum(7)
    /\ recurring_sales = PutRecurring

----------------------------------------------------------------------------
(* a handler calls getPool(): a dashboard request arriving, or a request   *)
(* to a sales handler                                                      *)
C23_Calling ==
    \/ \E i \in DOMAIN reqs : reqs[i].pc = "idle" /\ reqs'[i].pc # "idle"
    \/ sale.pc = "idle" /\ sale'.pc = "handler"

(* C23: over the calls of getPool() in one process the pool is built at    *)
(* most once, by the first call, and every call returns that one pool:     *)
(* no call after the first builds another.                                 *)
C23_PoolBuiltOnce ==
    /\ [](pool.built <= 1 /\ (pool.created <=> pool.built = 1))
    /\ [][C23_Calling => (pool'.created /\ pool'.built = 1)]_vars
    /\ [][(~C23_Calling \/ pool.created) => pool'.built = pool.built]_vars

(* three calls were made, by both handlers, and one pool was built *)
C23_Witness ==
    /\ pool.built = 1
    /\ reqs[1].pc = "done"
    /\ sale.served = 1 /\ sale.pc = "done"

----------------------------------------------------------------------------
(* the records created by a POST of the ledger: no amount, a quantity and  *)
(* a unit amount                                                           *)
C24_Created(table) == SelectSeq(table, LAMBDA r : r.id.v >= 2)
C24_Kept(table)    == SelectSeq(table, LAMBDA r : r.id.v < 2)
RECURSIVE C24_QtyTimesUnit(_)
C24_QtyTimesUnit(table) ==
    IF Len(table) = 0 THEN 0
    ELSE table[1].quantity.v * table[1].unit_amount.v + C24_QtyTimesUnit(Tail(table))

(* C24: a sale created by a POST that names a quantity q and a unit amount *)
(* u and no amount is counted by a later dashboard as q * u: a one-off     *)
(* sale created without a status adds q * u to draftsTotal, a recurring    *)
(* sale adds q * u to the month's recurring total.                         *)
C24_CountedAsQtyTimesUnit ==
    [][\A i \in DOMAIN reqs :
         /\ ( reqs[i].pc = "draftsTotal" /\ reqs'[i].pc = "recurring" ) =>
                ToNumber(reqs'[i].loc.draftsTotal.total) =
                    Num(DraftTotal(C24_Kept(oneoff_sales))
                        + C24_QtyTimesUnit(C24_Created(oneoff_sales)))
         /\ ( reqs[i].pc = "recurring" /\ reqs'[i].pc = "activeClients" ) =>
                reqs'[i].loc.recurringMonth =
                    Num(MonthTotal(C24_Kept(recurring_sales), NowMonth)
                        + C24_QtyTimesUnit(C24_Created(recurring_sales)))]_vars

(* what the handlers do: the amount left out is stored as 0, and the sale  *)
(* is counted as 0 whatever its quantity and unit amount                   *)
C24_CountedAsZero ==
    [][\A i \in DOMAIN reqs :
         /\ ( reqs[i].pc = "draftsTotal" /\ reqs'[i].pc = "recurring" ) =>
                ToNumber(reqs'[i].loc.draftsTotal.total) =
                    Num(DraftTotal(C24_Kept(oneoff_sales)))
         /\ ( reqs[i].pc = "recurring" /\ reqs'[i].pc = "activeClients" ) =>
                reqs'[i].loc.recurringMonth =
                    Num(MonthTotal(C24_Kept(recurring_sales), NowMonth))]_vars

----------------------------------------------------------------------------
(* a record active in the month numbered mn and in no other, amount 1:     *)
(* summed by a loop, it counts the visits the loop pays to that month      *)
C26_OnlyIn(mn) ==
    LET y == mn \div 12
        m == (mn % 12) + 1
    IN  << RowFromDriver(RecurringRow(1, SqlDec(1), SqlInt(1), SqlDec(0),
                                      SqlDate(y, m, 1), SqlDate(y, m, DaysInMonth(y, m)),
                                      SqlInt(1), SqlNull)) >>
C26_YtdVisits(mn) ==
    ytdLoop(firstOfMonth(loc.fyStart), loc.eMonth, C26_OnlyIn(mn), Num(0))
C26_ProjectionVisits(mn) ==
    projectionLoop(0, monthsLeftFor(getMonth(now)),
                   NewDate(getFullYear(now), getMonth(now) + 1, 1), C26_OnlyIn(mn), Num(0))
C26_EveryMonth(rec) ==
    \A mn \in FiscalApril..FiscalMarch : ActiveIn(rec, mn \div 12, (mn % 12) + 1)

(* C26: the months visited by the recurringYTD loop and those visited by   *)
(* the projection loop are disjoint, and together they are the twelve      *)
(* months April..March of the fiscal year of "now", each visited once; so  *)
(* with no one-off sales, one monthly record of amount a active in every   *)
(* month gives expectedIncome = 12 * a on every date.  The visits depend   *)
(* on the date alone: they are counted once per date, when the handler has *)
(* computed its dates.                                                     *)
C26_TwelveMonthsOnce ==
    /\ ( pc = "oneoffYTD" /\ recurring_sales = <<>> ) =>
          \A mn \in (FiscalApril - 13)..(FiscalMarch + 13) :
              NumAdd(C26_YtdVisits(mn), C26_ProjectionVisits(mn)) =
                  Num(IF mn \in FiscalApril..FiscalMarch THEN 1 ELSE 0)
    /\ ( Answered /\ oneoff_sales = <<>> /\ Len(recurring_sales) = 1
           /\ C26_EveryMonth(recurring_sales[1]) )
          => SentCards.expectedIncome = Num(12 * FullAmount(recurring_sales[1]))

(* in March, the last month of the fiscal year: nothing is left to project *)
C26_Witness ==
    /\ Answered
    /\ Today = [y |-> 2025, m |-> 3, d |-> 15]
    /\ oneoff_sales = <<>>
    /\ recurring_sales = <<WithId(RecurringPool[2], 1)>>
    /\ SentCards.ytd = Num(960)
    /\ SentCards.expectedIncome = Num(960)

----------------------------------------------------------------------------
RECURSIVE C28_AllAmounts(_)
C28_AllAmounts(table) ==
    IF Len(table) = 0 THEN 0 ELSE FullAmount(table[1]) + C28_AllAmounts(Tail(table))

(* C28: no one-off sale is counted both in ytd and in draftsTotal of one   *)
(* result, nor both in monthlyIncome and in draftsTotal, also when         *)
(* requests changing its status run beside the dashboard request: the      *)
(* one-off part of ytd (of monthlyIncome) and draftsTotal together never   *)
(* exceed the amounts of the sales there are.  (The ledger's writers       *)
(* neither delete a one-off sale nor change its amount.)                   *)
C28_NeverCountedTwice ==
    \A i \in DOMAIN reqs :
        reqs[i].pc \in {"recurring", "activeClients", "openTasks"} =>
            LET l == reqs[i].loc
            IN  /\ NumAdd(ToNumber(l.oneoffYTD.total), ToNumber(l.draftsTotal.total)).v
                      <= C28_AllAmounts(oneoff_sales)
                /\ NumAdd(ToNumber(l.oneoffThisMonth.total), ToNumber(l.draftsTotal.total)).v
                      <= C28_AllAmounts(oneoff_sales)

----------------------------------------------------------------------------
(* More dashboard requests than the pool has connections, of any method,   *)
(* on one instance.  The runtime invokes the handler of every request; the *)
(* pool queues the callers of getConnection() (waitForConnections: true,   *)
(* queueLimit: 0) and serves them first come first served as connections   *)
(* are released; the database accepts the pool's connections and answers   *)
(* every query, by a result or an error.  (A call of getConnection() that  *)
(* rejects is the step ConcGetConnectionFails of the specification above.) *)

MaxWaiting == 4   \* requests in flight together, more than connectionLimit

LiveMethods == {"GET", "OPTIONS", "POST"}

InitLive ==
    /\ call = Idle
    /\ pool = [created |-> FALSE, built |-> 0, inUse |-> 0]
    /\ now = NewDate(2024, 5, 15)
    /\ recurring_sales = <<>>
    /\ oneoff_sales = <<>>
    /\ clients = ClientsTable
    /\ tasks = TasksTable
    /\ pc = "idle"
    /\ method = "GET"
    /\ conn = "none"
    /\ releases = 0
    /\ loc = NoLocals
    /\ res = <<>>
    /\ \E m \in LiveMethods :
          reqs = [i \in 1..MaxWaiting |->
                    [pc |-> "idle", now |-> JsNull, conn |-> "none", releases |-> 0,
                     loc |-> NoLocals, res |-> <<>>,
                     method |-> IF i = 1 THEN m ELSE "GET"]]
    /\ sale = NoSale
    /\ projects = <<>>

(* if (req.method === "OPTIONS") return res.status(200).end() *)
LiveRequestOptions(i) ==
    /\ reqs[i].pc = "idle"
    /\ reqs[i].method = "OPTIONS"
    /\ reqs' = [reqs EXCEPT ![i].pc = "done",
                            ![i].res = Append(@, Respond(200, [kind |-> "end"]))]
    /\ UNCHANGED pool
    /\ OneRequestUnchanged
    /\ TablesUnchanged

(* if (req.method !== "GET") return res.status(405).json(...) *)
LiveRequestOther(i) ==
    /\ reqs[i].pc = "idle"
    /\ reqs[i].method \notin {"OPTIONS", "GET"}
    /\ reqs' = [reqs EXCEPT ![i].pc = "done",
                            ![i].res = Append(@, Respond(405,
                                [kind |-> "error", error |-> "Method Not Allowed"]))]
    /\ UNCHANGED pool
    /\ OneRequestUnchanged
    /\ TablesUnchanged

LiveRequestGet(i) ==
    /\ reqs[i].method = "GET"
    /\ ConcRequestGet(i)

LiveArrives(i) == LiveRequestOptions(i) \/ LiveRequestOther(i) \/ LiveRequestGet(i)
(* the awaited query of request i is answered, by an error or by a result: *)
(* the request moves on                                                    *)
LiveAnswered(i) ==
    \/ ConcQueryFails(i)
    \/ ( reqs[i].pc \in QueryPcs /\ reqs'[i].pc # reqs[i].pc )

NextLive ==
    \E i \in DOMAIN reqs :
        \/ LiveRequestOptions(i)
        \/ LiveRequestOther(i)
        \/ LiveRequestGet(i)
        \/ ConcGetConnection(i)
        \/ ConcQuery(i)
        \/ ConcQueryFails(i)

(* the pool can grant request i a connection, and does *)
LiveGrantable(i) == reqs[i].pc = "getConnection" /\ pool.inUse < connectionLimit
LiveGranted(i) == reqs[i].pc = "getConnection" /\ reqs'[i].pc = "oneoffYTD"

(* weak fairness of the handler's own steps and of the database's answers; *)
(* strong fairness of the grant, SF_vars(ConcGetConnection(i)), with its   *)
(* enabling condition written out: a caller that can be served again and   *)
(* again is served                                                         *)
SpecLive ==
    /\ InitLive
    /\ [][NextLive]_vars
    /\ \A i \in 1..MaxWaiting :
          /\ WF_vars(LiveArrives(i))
          /\ ( <>[](~LiveGrantable(i)) ) \/ ( []<><<LiveGranted(i)>>_vars )
          /\ WF_vars(LiveAnswered(i))

C27_Held == {i \in DOMAIN reqs : reqs[i].conn = "held"}
C27_Finished(i) ==
    /\ reqs[i].pc = "done"
    /\ Len(reqs[i].res) = 1
    /\ reqs[i].method = "GET" => ( reqs[i].conn = "released" /\ reqs[i].releases = 1 )

----------------------------------------------------------------------------
(* POST /api/projects: the project's client is given by id, or by a name   *)
(* typed in, for which a client is looked up by company and created when   *)
(* none is found.  Each query is awaited on the pool: the requests of one  *)
(* instance interleave between their queries.                              *)

MaxProjectRequests == 2   \* POST requests in flight together

Space == " "
RECURSIVE trimStart(_)
trimStart(s) == IF Len(s) > 0 /\ Head(s) = Space THEN trimStart(Tail(s)) ELSE s
RECURSIVE trimEnd(_)
trimEnd(s) ==
    IF Len(s) > 0 /\ s[Len(s)] = Space THEN trimEnd(SubSeq(s, 1, Len(s) - 1)) ELSE s
(* String(x).trim() *)
trim(s) == trimEnd(trimStart(s))

Acme == <<"A", "c", "m", "e">>
Bolt == <<"B", "o", "l", "t">>
ProjectTitle == <<"t">>

ProjectBodies ==
    { [notes |-> Text(<<"n">>)],
      [title |-> Text(ProjectTitle)],
      [title |-> Text(ProjectTitle), client_id |-> JsNum(1)],
      [title |-> Text(ProjectTitle), client_name_manual |-> Text(Acme)],
      [title |-> Text(ProjectTitle), client_name_manual |-> Text(<<Space>> \o Acme \o <<Space>>)],
      [title |-> Text(ProjectTitle), client_name_manual |-> Text(Bolt)] }

ClientRow(id, company) ==
    [id |-> SqlInt(id), name |-> SqlText(company), company |-> SqlText(company),
     status |-> SqlText(Active)]

ProjectClients == { <<>>, <<ClientRow(1, Bolt)>> }

NewProjectRequest(body) ==
    [pc |-> "idle", body |-> body, clientIdVal |-> JsNull, manualName |-> JsNull,
     res |-> <<>>]

InitProjects ==
    /\ call = Idle
    /\ pool = [created |-> FALSE, built |-> 0, inUse |-> 0]
    /\ now = NewDate(2024, 5, 15)
    /\ recurring_sales = <<>>
    /\ oneoff_sales = <<>>
    /\ clients \in ProjectClients
    /\ tasks = TasksTable
    /\ pc = "idle"
    /\ method = "POST"
    /\ conn = "none"
    /\ releases = 0
    /\ loc = NoLocals
    /\ res = <<>>
    /\ reqs \in [1..MaxProjectRequests -> {NewProjectRequest(b) : b \in ProjectBodies}]
    /\ sale = NoSale
    /\ projects = <<>>

ProjectUnchanged ==
    UNCHANGED <<call, now, pc, method, conn, releases, loc, res, sale,
                recurring_sales, oneoff_sales, tasks>>

(* lines 102-143: the body is read; no title is answered 400 *)
ProjectRequest(i) ==
    /\ reqs[i].pc = "idle"
    /\ pool' = getPool(pool)
    /\ LET body        == reqs[i].body
           clientIdVal == IF Truthy(Param(body, "client_id"))
                          THEN [t |-> "number", n |-> ToNumber(body["client_id"])]
                          ELSE JsNull
           manualName  == IF Truthy(Param(body, "client_name_manual"))
                          THEN JsStr(trim(JsString(body["client_name_manual"])))
                          ELSE JsNull
       IN  reqs' = [reqs EXCEPT ![i] =
              IF ~Truthy(Param(body, "title"))
              THEN [@ EXCEPT !.pc = "done",
                             !.res = Append(@, Respond(400,
                                 [kind |-> "error", ok |-> FALSE,
                                  error |-> "Title is required"]))]
              ELSE [@ EXCEPT !.clientIdVal = clientIdVal, !.manualName = manualName,
                             !.pc = IF ~Truthy(clientIdVal) /\ Truthy(manualName)
                                    THEN "findClient" ELSE "insertProject"]]
    /\ UNCHANGED <<clients, projects>>
    /\ ProjectUnchanged

(* SELECT id FROM clients WHERE company = ? LIMIT 1 *)
SelectClientByCompany(table, company) ==
    LET found == SelectSeq(table, LAMBDA r : r.company = SqlText(company))
    IN  [j \in 1..(IF Len(found) > 0 THEN 1 ELSE 0) |-> [id |-> FromDriver(found[j].id)]]

(* lines 146-153: the client is looked up by company *)
ProjectFindClient(i) ==
    /\ reqs[i].pc = "findClient"
    /\ LET existing == SelectClientByCompany(clients, reqs[i].manualName.s)
       IN  reqs' = [reqs EXCEPT ![i] =
              IF Len(existing) > 0
              THEN [@ EXCEPT !.clientIdVal = existing[1].id, !.pc = "insertProject"]
              ELSE [@ EXCEPT !.pc = "insertClient"]]
    /\ UNCHANGED <<pool, clients, projects>>
    /\ ProjectUnchanged

(* AUTO_INCREMENT of a table from which nothing is deleted *)
insertId(table) == Len(table) + 1

(* lines 154-163: INSERT INTO clients; clientIdVal = clientResult.insertId *)
ProjectInsertClient(i) ==
    /\ reqs[i].pc = "insertClient"
    /\ clients' = Append(clients, ClientRow(insertId(clients), reqs[i].manualName.s))
    /\ reqs' = [reqs EXCEPT ![i].clientIdVal = JsNum(insertId(clients)),
                            ![i].pc = "insertProject"]
    /\ UNCHANGED <<pool, projects>>
    /\ ProjectUnchanged

(* lines 166-204: INSERT INTO projects, then 201 with the project *)
ProjectInsert(i) ==
    /\ reqs[i].pc = "insertProject"
    /\ LET r   == reqs[i]
           row == [id |-> SqlInt(insertId(projects)),
                   client_id |-> IF Truthy(r.clientIdVal) THEN SqlInt(r.clientIdVal.n.v)
                                 ELSE SqlNull,
                   client_name_manual |-> IF r.manualName = JsNull THEN SqlNull
                                          ELSE SqlText(r.manualName.s),
                   title |-> SqlText(trim(JsString(r.body["title"])))]
       IN  /\ projects' = Append(projects, row)
           /\ reqs' = [reqs EXCEPT ![i].pc = "done",
                                   ![i].res = Append(@, Respond(201,
                                       [kind |-> "project", ok |-> TRUE,
                                        project |-> RowFromDriver(row)]))]
    /\ UNCHANGED <<pool, clients>>
    /\ ProjectUnchanged

(* an awaited query rejects: catch answers 500 *)
ProjectFails(i) ==
    /\ reqs[i].pc \in {"findClient", "insertClient", "insertProject"}
    /\ reqs' = [reqs EXCEPT ![i].pc = "done",
                            ![i].res = Append(@, Respond(500,
                                [kind |-> "error", ok |-> FALSE,
                                 error |-> "Internal Server Error"]))]
    /\ UNCHANGED <<pool, clients, projects>>
    /\ ProjectUnchanged

NextProjects ==
    \E i \in DOMAIN reqs :
        \/ ProjectRequest(i)
        \/ ProjectFindClient(i)
        \/ ProjectInsertClient(i)
        \/ ProjectInsert(i)
        \/ ProjectFails(i)

SpecProjects == InitProjects /\ [][NextProjects]_vars

C29_Named(table, company) ==
    {j \in 1..Len(table) : table[j].company = SqlText(company)}
C29_ByName(company) ==
    {j \in 1..Len(projects) : projects[j].client_name_manual = SqlText(company)}

(* C29: after any interleaving of POST requests that give a client name    *)
(* and no client id, there is at most one client with that company name,   *)
(* and every project created for the name refers to the same client.       *)
C29_FindOrCreate ==
    \A company \in {Acme, Bolt} :
        /\ Cardinality(C29_Named(clients, company)) <= 1
        /\ \A j, k \in C29_ByName(company) : projects[j].client_id = projects[k].client_id

(* what holds in every interleaving: a project created for a name refers   *)
(* to a client of that company                                             *)
C29_ProjectHasNamedClient ==
    \A company \in {Acme, Bolt} : \A j \in C29_ByName(company) :
        \E c \in C29_Named(clients, company) : clients[c].id = projects[j].client_id

----------------------------------------------------------------------------
(* GET /api/calendar?month=YYYY-MM, in the two revisions of the file: the  *)
(* first (lines 1-177) on the shared pool, the second, the pool revision   *)
(* (lines 178-334), on a pool of its own.  call holds the query's month,   *)
(* the rows of calendar_events and the response.                           *)

MaxEventRows == 2   \* rows in calendar_events

EventDates ==
    << SqlDate(2023, 12, 31), SqlDate(2024, 1, 1), SqlDate(2024, 5, 31),
       SqlDate(2024, 6, 1), SqlDate(2024, 6, 30), SqlDate(2024, 7, 1),
       SqlDate(2024, 7, 31), SqlDate(2024, 8, 1), SqlDate(2024, 12, 31),
       SqlDate(2025, 1, 1), SqlDate(2025, 1, 31), SqlDate(2025, 2, 1) >>

(* tables of up to MaxEventRows events, in the order of their dates *)
EventTables ==
    { [i \in 1..Len(ix) |-> [id |-> SqlInt(i), event_date |-> EventDates[ix[i]]]] :
        ix \in { f \in UNION { [1..n -> 1..Len(EventDates)] : n \in 0..MaxEventRows } :
                   \A i \in 1..(Len(f) - 1) : f[i] < f[i + 1] } }

Chars(a, b, c, d, e, f, g) == <<a, b, c, d, e, f, g>>
QueryMonths ==
    { JsNull, JsStr(<<>>),
      JsStr(Chars("2", "0", "2", "3", "-", "1", "2")),
      JsStr(Chars("2", "0", "2", "4", "-", "0", "1")),
      JsStr(Chars("2", "0", "2", "4", "-", "0", "6")),
      JsStr(Chars("2", "0", "2", "4", "-", "0", "7")),
      JsStr(Chars("2", "0", "2", "4", "-", "1", "2")),
      JsStr(Chars("2", "0", "2", "4", "-", "0", "0")),
      JsStr(Chars("2", "0", "2", "4", "-", "1", "3")),
      JsStr(Chars("2", "0", "2", "4", "/", "0", "6")),
      JsStr(Chars("2", "0", "2", "4", "-", "J", "u")),
      JsStr(<<"2", "0", "2", "4", "-", "6">>),
      JsStr(<<"2", "0", "2", "4", "-", "0", "6", "-", "0", "1">>) }

(* /^\d{4}-\d{2}$/.test(month) *)
MonthPattern(s) ==
    /\ Len(s) = 7
    /\ IsDigits(SubSeq(s, 1, 4))
    /\ s[5] = "-"
    /\ IsDigits(SubSeq(s, 6, 7))

(* `${y}-${String(m).padStart(2, "0")}-01` *)
FirstDayString(y, m) ==
    FormatNat(y) \o <<"-">> \o padStart2(FormatNat(m)) \o <<"-", "0", "1">>

(* WHERE event_date >= ? AND event_date < ? ORDER BY event_date ASC *)
SelectEvents(table, startDate, endDate) ==
    SelectSeq(table, LAMBDA r :
        /\ CivilLE(SqlParseDate(startDate), Civil(r.event_date))
        /\ CivilBefore(Civil(r.event_date), SqlParseDate(endDate)))

(* lines 15-49 *)
calendarGet(month, table) ==
    IF ~Truthy(month) \/ ~MonthPattern(month.s)
    THEN Respond(400, [kind |-> "error", ok |-> FALSE])
    ELSE LET year == ParseDigits(SubSeq(month.s, 1, 4))
             mon  == ParseDigits(SubSeq(month.s, 6, 7))
         IN  IF mon < 1 \/ mon > 12
             THEN Respond(400, [kind |-> "error", ok |-> FALSE])
             ELSE LET startDate == FirstDayString(year, mon)
                      nextMon   == IF mon = 12 THEN 1 ELSE mon + 1
                      nextYear  == IF mon = 12 THEN year + 1 ELSE year
                      endDate   == FirstDayString(nextYear, nextMon)
                  IN  Respond(200, [kind |-> "events", ok |-> TRUE,
                                    events |-> SelectEvents(table, startDate, endDate)])

(* lines 199-226, the pool revision *)
calendarGet_pool(month, table) ==
    IF ~Truthy(month) \/ ~MonthPattern(month.s)
    THEN Respond(400, [kind |-> "error", ok |-> FALSE])
    ELSE LET year == ParseDigits(SubSeq(month.s, 1, 4))
             mon  == ParseDigits(SubSeq(month.s, 6, 7))
         IN  IF mon < 1 \/ mon > 12
             THEN Respond(400, [kind |-> "error", ok |-> FALSE])
             ELSE LET startDate == FirstDayString(year, mon)
                      endDate   == NewDate(year, mon, 1)
                      first     == NewDate(getFullYear(endDate), getMonth(endDate), 1)
                      nextMon   == NewDate(getFullYear(first), getMonth(first) + 1,
                                           getDate(first))
                      endStr    == FirstDayString(getFullYear(nextMon), getMonth(nextMon) + 1)
                  IN  Respond(200, [kind |-> "events", ok |-> TRUE,
                                    events |-> SelectEvents(table, startDate, endStr)])

CalendarRevisions == {"shared pool", "own pool"}

CallCalendarGet ==
    /\ call = Idle
    /\ \E rev \in CalendarRevisions, month \in QueryMonths, table \in EventTables :
          call' = [fn |-> "calendarGet", revision |-> rev, month |-> month,
                   events |-> table,
                   ret |-> IF rev = "shared pool" THEN calendarGet(month, table)
                           ELSE calendarGet_pool(month, table)]
    /\ HandlerUnchanged

NextCalendar ==
    \/ CallCalendarGet
    \/ Return

SpecCalendar == InitFn /\ [][NextCalendar]_vars

(* the month a query names, when it names one: YYYY-MM with MM in 01..12 *)
C30_Names(month) ==
    /\ month # JsNull /\ Len(month.s) = 7 /\ month.s[5] = "-"
    /\ \A i \in {1, 2, 3, 4, 6, 7} : IsDigit(month.s[i])
    /\ 10 * DigitVal(month.s[6]) + DigitVal(month.s[7]) \in 1..12
C30_Year(month) ==
    1000 * DigitVal(month.s[1]) + 100 * DigitVal(month.s[2])
        + 10 * DigitVal(month.s[3]) + DigitVal(month.s[4])
C30_Mon(month) == 10 * DigitVal(month.s[6]) + DigitVal(month.s[7])
C30_InMonth(table, y, m) ==
    SelectSeq(table, LAMBDA r : r.event_date.y = y /\ r.event_date.m = m)

(* C30: GET /api/calendar?month=YYYY-MM answers 200 with exactly the       *)
(* events whose event_date lies in that month, December running to the     *)
(* first of January; a month that is missing, malformed or outside 1..12   *)
(* is answered 400 -- in both revisions of the handler.                    *)
C30_EventsOfTheMonth ==
    InCall("calendarGet") =>
        IF C30_Names(call.month)
        THEN /\ call.ret.status = 200
             /\ call.ret.body.events =
                   C30_InMonth(call.events, C30_Year(call.month), C30_Mon(call.month))
        ELSE call.ret.status = 400

(* the first revision does as claimed *)
C30_SharedPoolRevision ==
    ( InCall("calendarGet") /\ call.revision = "shared pool" ) => C30_EventsOfTheMonth

(* the pool revision answers with the events of the month and of the month *)
(* after it                                                                *)
C30_OwnPoolRevisionTwoMonths ==
    ( InCall("calendarGet") /\ call.revision = "own pool" ) =>
        IF C30_Names(call.month)
        THEN LET y == C30_Year(call.month)
                 m == C30_Mon(call.month)
             IN  /\ call.ret.status = 200
                 /\ call.ret.body.events =
                       C30_InMonth(call.events, y, m)
                           \o C30_InMonth(call.events, IF m = 12 THEN y + 1 ELSE y,
                                          IF m = 12 THEN 1 ELSE m + 1)
        ELSE call.ret.status = 400

====
